---- MODULE Spec2Model ----
(***************************************************************************)
(* Model of the indexing pipeline engine (daniel-maxwell/Indexer):        *)
(*   - internal/pkg/queue/queue.go            the bounded FIFO queue       *)
(*   - internal/pkg/circuitbreaker            the three-state breaker      *)
(*   - internal/pkg/processor/deduplicator.go the NLP batch processor      *)
(*   - internal/pkg/indexer/indexer.go        the bulk indexer and main    *)
(*   - internal/pkg/worker/worker_pool.go     the worker pool              *)
(*   - internal/pkg/processor/processor.go    the processing pipeline      *)
(*   - internal/pkg/administrator             construction and shutdown    *)
(* Each component has its own specification over the shared variables:    *)
(*   SpecQueue, SpecFifo   the queue under concurrent / SPSC callers      *)
(*   SpecBreaker           the breaker under concurrent Execute calls     *)
(*   SpecBatch             the batch loop, its callers and Stop           *)
(*   SpecBatchClock        the same while the wall clock runs             *)
(*   SpecIndexer           the bulk indexer, its callers and Stop         *)
(*   SpecWorkers           ingest and the worker pool                     *)
(*   SpecPipeline          the whole service and its shutdown sequence    *)
(*   SpecQueueObserved     the queue with callers of Length and IsEmpty   *)
(*   SpecIndexerFair       the bulk indexer's loop under fair scheduling  *)
(*   SpecShutdown          the service with the batch loop running        *)
(*   SpecDocID             generateDocID on its own                       *)
(*   SpecProcess           Process stage by stage, on every page URL      *)
(*   SpecQuality           Process on the inputs of the quality score     *)
(*   SpecText              Process on visible texts with white space      *)
(*   SpecWorkerPoolFair    the worker pool under fair scheduling          *)
(***************************************************************************)
EXTENDS Integers, Sequences, FiniteSets, TLC

\* ------------------------------------------------------------------ bounds
\* Queue capacity passed to CreateQueue (any value > 0).
Capacity == 2
\* Number of concurrent tasks calling queue operations.
NProcs == 2
\* Number of Insert calls made in a run (each carries a fresh page).
MaxInserts == 3

\* Circuit breaker parameters of NewCircuitBreaker: failure threshold F and
\* reset timeout T (in clock ticks); number of concurrent Execute callers;
\* last instant of the clock.
FailureThreshold == 2
ResetTimeout == 2
NCallers == 2
MaxTime == 6

\* NLP batch client: batch size B passed to NewBatchProcessor and the number
\* of Process calls made in a run (one BatchItem each).
BatchSize == 2
MaxItems == 3

\* Bulk indexer: flush threshold and retry limit M passed to NewBulkIndexer,
\* and the number of documents its direct callers add in a run.
BulkThreshold == 1
MaxRetries == 2
MaxDocs == 2

\* Number of pages sent to the ingest endpoint in a run of the service,
\* number of distinct visible texts they are drawn from, and number of pages
\* sent in a run that goes through the shutdown sequence.
MaxPages == 2
NTexts == 2
MaxShutdownPages == 1

\* The zero value models.PageData{} returned by a failed Remove.
NoItem == 0

Procs == 1..NProcs
Callers == 1..NCallers
BatchItems == 1..MaxItems

\* Strings are sequences of one-character strings; LetterRun(n) is the
\* word of n letters.
LetterRun(n) == [i \in 1..n |-> "a"]

\* The visible texts of the pages the service ingests: NTexts different
\* words.
Texts == {LetterRun(n) : n \in 1..NTexts}

VARIABLES
    \* ---- Queue (queue.go:9-14)
    q,          \* Queue.q: the buffer, oldest first
    closed,     \* Queue.closed
    mu,         \* Queue.mu: 0 when free, else the task holding it
    \* ---- tasks calling into the queue
    qpc,        \* qpc[p]: position of task p inside its queue call
    qop,        \* qop[p]: "Insert" | "Remove" | "Close" | "none"
    qarg,       \* qarg[p]: item passed to Insert / item read by Remove
    qres,       \* qres[p]: value the call is about to return
    qpre,       \* qpre[p]: the buffer as it was when p took the mutex
    qlate,      \* qlate[p]: the call began after some Close had returned
    \* ---- observation of the queue's history
    nextItem,   \* next fresh page to be passed to Insert
    accepted,   \* items appended by successful Inserts, in append order
    removed,    \* items returned by successful Removes, in return order
    closeDone,  \* some Close call has returned
    \* ---- CircuitBreaker (circuit_breaker.go:18-26)
    state,        \* "closed" | "open" | "half-open"
    failureCount, \* CircuitBreaker.failureCount
    lastFailure,  \* CircuitBreaker.lastFailure (a clock reading)
    now,          \* the wall clock read by time.Now / time.Since
    \* ---- tasks calling Execute
    cpc,        \* cpc[c]: "idle" | "running" (inside the wrapped function)
    cadm,       \* cadm[c]: how the running call was admitted:
                \*   "closed", "probe" (it moved open -> half-open),
                \*   "half-open" (it found the state half-open), "open"
    cres,       \* cres[c]: what c's last call returned
    \* ---- observation of the breaker's history
    streak,     \* consecutive failed calls counted from closed with
                \* failure count 0; -1 when not counting
    openedAt,   \* clock reading when the state last became open
    rejectedAt, \* clock reading of the last ErrCircuitOpen answer, or -1
    \* ---- BatchProcessor (deduplicator.go:68-85)
    currentBatch,   \* bp.currentBatch: the items waiting for the next batch
    processingChan, \* bp.processingChan: number of buffered signals (0..1)
    done,           \* bp.done has been closed
    \* ---- the batch loop (processBatches / processBatch)
    bpc,        \* position of the loop
    batch,      \* processBatch's local batch
    bidx,       \* index of the next item of batch to be answered
    bkind,      \* the result being delivered to the items of batch
    \* ---- the items and the callers of Process
    mailbox,    \* mailbox[i]: content of item i's resultCh (capacity 1)
    writes,     \* writes[i]: number of sends completed on item i's resultCh
    ipc,        \* ipc[i]: position of the i-th Process call (owner of item i)
    nextCall,   \* number of the next Process call
    \* ---- BulkIndexer (indexer.go:19-34)
    buffer,       \* indexer.buffer: the documents waiting for the next flush
    flushChannel, \* indexer.flushChannel: number of buffered signals (0..1)
    idone,        \* indexer.done has been closed
    iwg,          \* indexer.wg: the WaitGroup counter
    elasticURL,   \* "unchecked" until the first http.NewRequest tells
                  \* whether indexer.elasticURL is "valid" or "invalid"
    \* ---- the flush loop (startFlushing / flush)
    fpc,          \* position of the loop
    ffinal,       \* the loop has taken the <-done case
    docsToIndex,  \* flush's local docsToIndex
    \* ---- the request tasks spawned by flush, in spawn order
    tasks,        \* tasks[t]: docs, lines (the NDJSON payload), attempt,
                  \* status, final (spawned by the final flush) and the
                  \* observations posts, fails, sawOk, counted
    \* ---- metrics (metrics.go)
    bulkFlushes,        \* metrics.BulkFlushes
    bulkFailures,       \* metrics.BulkFailures
    duplicatesDetected, \* metrics.DuplicatesDetected
    \* ---- observation of the indexer's history
    added,        \* documents passed to AddDocumentToIndexerPayload, in
                  \* the order of their appends
    lateAdds,     \* those appended after the loop took the <-done case
    \* ---- the worker pool (worker_pool.go) and callers of the indexer
    wpc,          \* wpc[w]: position of worker w
    wpage,        \* wpage[w]: the page worker w is handling, or NoItem
    wcount,       \* wcount[w]: len(buffer) read by w's AddDocument call
    \* ---- the pages and the deduplication store
    pageText,     \* pageText[p]: visible text of the accepted page p
    textVerdict,  \* textVerdict[x]: what language and spam detection say
                  \* of text x; "unknown" until a worker first runs them
    presult,      \* presult[p]: what Process returned for page p
    sigs,         \* the Redis set of stored signatures
    redisFailed,  \* some Redis command has failed
    \* ---- main (cmd/app/main.go) and Administrator.Stop
    cancelled,    \* the root context has been cancelled
    mpc,          \* position of main / of the caller of Stop
    \* ---- one task running ContentProcessor.Process (unnamed/part_007)
    ppc,          \* the stage the call is about to run, or "idle"
    pcalls,       \* number of Process calls begun
    pageData,     \* the *models.PageData argument: URL, VisibleText
                  \* and Language
    document,     \* the *models.Document argument: URL, VisibleText,
                  \* the fields the quality score reads, SpamScore
                  \* and QualityScore
    perr,         \* what the call returns: "none" while it runs
    trail,        \* the effects of the call so far, in order
    \* ---- one call of generateDocID (indexer.go:190-229)
    idgen         \* its arguments, its position and its result

qvars == <<q, closed, mu, qpc, qop, qarg, qres, qpre, qlate,
           nextItem, accepted, removed, closeDone>>

cbvars == <<state, failureCount, lastFailure, now>>

cvars == <<cpc, cadm, cres, streak, openedAt, rejectedAt>>

bpvars == <<currentBatch, processingChan, done, bpc, batch, bidx, bkind,
            mailbox, writes, ipc, nextCall>>

\* The bulk indexer, its loop, its tasks and its counters.
ivars == <<buffer, flushChannel, idone, iwg, elasticURL, fpc, ffinal,
           docsToIndex, tasks, bulkFlushes, bulkFailures, added, lateAdds>>

\* The workers, the pages, the deduplication store and main.
wvars == <<wpc, wpage, wcount, pageText, textVerdict, presult, sigs,
           redisFailed, duplicatesDetected, cancelled, mpc>>

\* The stage-by-stage Process call and the generateDocID call.
pvars == <<ppc, pcalls, pageData, document, perr, trail, idgen>>

vars == <<q, closed, mu, qpc, qop, qarg, qres, qpre, qlate,
          nextItem, accepted, removed, closeDone,
          state, failureCount, lastFailure, now,
          cpc, cadm, cres, streak, openedAt, rejectedAt,
          currentBatch, processingChan, done, bpc, batch, bidx, bkind,
          mailbox, writes, ipc, nextCall,
          buffer, flushChannel, idone, iwg, elasticURL, fpc, ffinal,
          docsToIndex, tasks, bulkFlushes, bulkFailures, added, lateAdds,
          wpc, wpage, wcount, pageText, textVerdict, presult, sigs,
          redisFailed, duplicatesDetected, cancelled, mpc,
          ppc, pcalls, pageData, document, perr, trail, idgen>>

\* ------------------------------------------------------------------ helpers
Range(s) == {s[i] : i \in 1..Len(s)}

IsPrefix(s, t) ==
    /\ Len(s) <= Len(t)
    /\ \A i \in 1..Len(s) : s[i] = t[i]

NoDup(s) == \A i, j \in 1..Len(s) : s[i] = s[j] => i = j

\* ------------------------------------------------------------------ queue
\* CreateQueue(capacity): empty buffer, open, mutex free.
QueueInit ==
    /\ q = <<>>
    /\ closed = FALSE
    /\ mu = 0
    /\ qpc = [p \in Procs |-> "idle"]
    /\ qop = [p \in Procs |-> "none"]
    /\ qarg = [p \in Procs |-> NoItem]
    /\ qres = [p \in Procs |-> "none"]
    /\ qpre = [p \in Procs |-> <<>>]
    /\ qlate = [p \in Procs |-> FALSE]
    /\ nextItem = 1
    /\ accepted = <<>>
    /\ removed = <<>>
    /\ closeDone = FALSE

\* The queue's operations touch nothing outside the queue.
QueueOnly == UNCHANGED <<cbvars, cvars, bpvars, ivars, wvars, pvars>>

\* A task begins a call: the next thing it does is q.mu.Lock().
QCall(p, op, item) ==
    /\ qpc[p] = "idle"
    /\ qpc' = [qpc EXCEPT ![p] = "lock"]
    /\ qop' = [qop EXCEPT ![p] = op]
    /\ qarg' = [qarg EXCEPT ![p] = item]
    /\ qlate' = [qlate EXCEPT ![p] = closeDone]
    /\ UNCHANGED <<q, closed, mu, qres, qpre, accepted, removed, closeDone>>
    /\ QueueOnly

QCallInsert(p) ==
    /\ nextItem <= MaxInserts
    /\ nextItem' = nextItem + 1
    /\ QCall(p, "Insert", nextItem)

QCallRemove(p) ==
    /\ UNCHANGED nextItem
    /\ QCall(p, "Remove", NoItem)

QCallClose(p) ==
    /\ UNCHANGED nextItem
    /\ QCall(p, "Close", NoItem)

\* Variant: Lock() never waits (the operation runs without the mutex).
MutexFreeUnguarded == TRUE

\* sync.Mutex: Lock() proceeds only while no task holds the mutex.
MutexFree == mu = 0

\* q.mu.Lock() at the head of Insert, Remove and Close.
QLock(p) ==
    /\ qpc[p] = "lock"
    /\ MutexFree
    /\ mu' = p
    /\ qpre' = [qpre EXCEPT ![p] = q]
    /\ qpc' = [qpc EXCEPT ![p] =
                 CASE qop[p] = "Insert" -> "ins_check"
                   [] qop[p] = "Remove" -> "rem_check"
                   [] OTHER -> "close_set"]
    /\ UNCHANGED <<q, closed, qop, qarg, qres, qlate,
                   nextItem, accepted, removed, closeDone>>
    /\ QueueOnly

\* Variant: the capacity test admits one item too many (<= for <).
InsertOutcomeOffByOne(isClosed, length) ==
    IF isClosed THEN "closed"
    ELSE IF length <= Capacity THEN "ok"
    ELSE "full"

\* Variant: the capacity test comes before the closed test.
InsertOutcomeFullFirst(isClosed, length) ==
    IF length >= Capacity THEN "full"
    ELSE IF isClosed THEN "closed"
    ELSE "ok"

\* Insert, lines 38-45: the outcome decided from closed and len(q.q).
InsertOutcome(isClosed, length) ==
    IF isClosed THEN "closed"
    ELSE IF length < Capacity THEN "ok"
    ELSE "full"

\* Variant: the item is appended before the tests and stays on failure.
QInsertCheckDirty(p) ==
    /\ qpc[p] = "ins_check"
    /\ LET out == InsertOutcome(closed, Len(q))
       IN  IF out = "ok"
           THEN /\ qpc' = [qpc EXCEPT ![p] = "ins_append"]
                /\ UNCHANGED <<q, qres>>
           ELSE /\ qpc' = [qpc EXCEPT ![p] = "unlock"]
                /\ qres' = [qres EXCEPT ![p] = out]
                /\ q' = Append(q, qarg[p])
    /\ UNCHANGED <<closed, mu, qop, qarg, qpre, qlate,
                   nextItem, accepted, removed, closeDone>>
    /\ QueueOnly

QInsertCheck(p) ==
    /\ qpc[p] = "ins_check"
    /\ LET out == InsertOutcome(closed, Len(q))
       IN  IF out = "ok"
           THEN /\ qpc' = [qpc EXCEPT ![p] = "ins_append"]
                /\ UNCHANGED qres
           ELSE /\ qpc' = [qpc EXCEPT ![p] = "unlock"]
                /\ qres' = [qres EXCEPT ![p] = out]
    /\ UNCHANGED <<q, closed, mu, qop, qarg, qpre, qlate,
                   nextItem, accepted, removed, closeDone>>
    /\ QueueOnly

\* q.q = append(q.q, item); return nil
QInsertAppend(p) ==
    /\ qpc[p] = "ins_append"
    /\ q' = Append(q, qarg[p])
    /\ accepted' = Append(accepted, qarg[p])
    /\ qres' = [qres EXCEPT ![p] = "ok"]
    /\ qpc' = [qpc EXCEPT ![p] = "unlock"]
    /\ UNCHANGED <<closed, mu, qop, qarg, qpre, qlate,
                   nextItem, removed, closeDone>>
    /\ QueueOnly

\* Variant: Remove hands out the newest element.
RemoveTargetNewest(buf) == buf[Len(buf)]

\* Remove, line 53: the element of the buffer that Remove hands out.
RemoveTarget(buf) == Head(buf)

\* Remove, lines 52-53 and 57: len(q.q) > 0, item := q.q[0]; otherwise the
\* zero value with the empty error.
QRemoveCheck(p) ==
    /\ qpc[p] = "rem_check"
    /\ IF Len(q) > 0
       THEN /\ qarg' = [qarg EXCEPT ![p] = RemoveTarget(q)]
            /\ qpc' = [qpc EXCEPT ![p] = "rem_slice"]
            /\ UNCHANGED qres
       ELSE /\ qarg' = [qarg EXCEPT ![p] = NoItem]
            /\ qres' = [qres EXCEPT ![p] = "empty"]
            /\ qpc' = [qpc EXCEPT ![p] = "unlock"]
    /\ UNCHANGED <<q, closed, mu, qop, qpre, qlate,
                   nextItem, accepted, removed, closeDone>>
    /\ QueueOnly

\* Remove, line 54: q.q = q.q[1:]  (slicing an empty buffer panics).
QRemoveSlice(p) ==
    /\ qpc[p] = "rem_slice"
    /\ IF Len(q) > 0
       THEN /\ q' = Tail(q)
            /\ qres' = [qres EXCEPT ![p] = "ok"]
            /\ qpc' = [qpc EXCEPT ![p] = "unlock"]
       ELSE /\ q' = q
            /\ qres' = [qres EXCEPT ![p] = "panic"]
            /\ qpc' = [qpc EXCEPT ![p] = "unlock"]
    /\ UNCHANGED <<closed, mu, qop, qarg, qpre, qlate,
                   nextItem, accepted, removed, closeDone>>
    /\ QueueOnly

\* Close, line 74: q.closed = true
QCloseSet(p) ==
    /\ qpc[p] = "close_set"
    /\ closed' = TRUE
    /\ qres' = [qres EXCEPT ![p] = "ok"]
    /\ qpc' = [qpc EXCEPT ![p] = "unlock"]
    /\ UNCHANGED <<q, mu, qop, qarg, qpre, qlate,
                   nextItem, accepted, removed, closeDone>>
    /\ QueueOnly

\* defer q.mu.Unlock() and the return to the caller.
QReturn(p) ==
    /\ qpc[p] = "unlock"
    /\ mu' = IF mu = p THEN 0 ELSE mu
    /\ removed' = IF qop[p] = "Remove" /\ qres[p] = "ok"
                  THEN Append(removed, qarg[p]) ELSE removed
    /\ closeDone' = (closeDone \/ qop[p] = "Close")
    /\ qpc' = [qpc EXCEPT ![p] = "idle"]
    /\ qop' = [qop EXCEPT ![p] = "none"]
    /\ qarg' = [qarg EXCEPT ![p] = NoItem]
    /\ qres' = [qres EXCEPT ![p] = "none"]
    /\ qpre' = [qpre EXCEPT ![p] = <<>>]
    /\ qlate' = [qlate EXCEPT ![p] = FALSE]
    /\ UNCHANGED <<q, closed, nextItem, accepted>>
    /\ QueueOnly

QStep(p) ==
    \/ QLock(p)
    \/ QInsertCheck(p)
    \/ QInsertAppend(p)
    \/ QRemoveCheck(p)
    \/ QRemoveSlice(p)
    \/ QCloseSet(p)
    \/ QReturn(p)

\* Length (line 61) and IsEmpty (line 66) begin: neither takes q.mu, so
\* the next thing the task does is read len(q.q).
QCallObserve(p, op) ==
    /\ qpc[p] = "idle"
    /\ qpc' = [qpc EXCEPT ![p] = "read"]
    /\ qop' = [qop EXCEPT ![p] = op]
    /\ qlate' = [qlate EXCEPT ![p] = closeDone]
    /\ UNCHANGED <<q, closed, mu, qarg, qres, qpre, nextItem, accepted,
                   removed, closeDone>>
    /\ QueueOnly

\* Length, line 62 / IsEmpty, line 67: return len(q.q) (== 0); the mutex is
\* neither tested nor taken, and the value goes back to the caller.
QObserve(p) ==
    /\ qpc[p] = "read"
    /\ qpc' = [qpc EXCEPT ![p] = "idle"]
    /\ qop' = [qop EXCEPT ![p] = "none"]
    /\ qlate' = [qlate EXCEPT ![p] = FALSE]
    /\ UNCHANGED <<q, closed, mu, qarg, qres, qpre, nextItem, accepted,
                   removed, closeDone>>
    /\ QueueOnly


\* --------------------------------------------------------- circuit breaker
\* NewCircuitBreaker: closed, no failures; no caller inside Execute.
BreakerInit ==
    /\ state = "closed"
    /\ failureCount = 0
    /\ lastFailure = 0
    /\ now = 0
    /\ cpc = [c \in Callers |-> "idle"]
    /\ cadm = [c \in Callers |-> "none"]
    /\ cres = [c \in Callers |-> "none"]
    /\ streak = 0
    /\ openedAt = 0
    /\ rejectedAt = -1

\* Variant: the reset test admits the probe at exactly T (>= for >).
ResetElapsedInclusive(t, last) == t - last >= ResetTimeout

\* Execute, line 47: time.Since(cb.lastFailure) > cb.resetTimeout
ResetElapsed(t, last) == t - last > ResetTimeout

\* Execute, lines 45-56: whether a call arriving in state st goes on to the
\* wrapped function.
Admitted(st, last, t) == st # "open" \/ ResetElapsed(t, last)

\* Execute, lines 45-56: the state left behind by the first locked section.
EnterState(st, last, t) ==
    IF st = "open" /\ ResetElapsed(t, last) THEN "half-open" ELSE st

\* Execute, line 70: cb.state == "half-open" || cb.failureCount >= threshold
OpensOnFailure(st, count) == st = "half-open" \/ count >= FailureThreshold

\* Execute, lines 66-89: the second locked section, after fn returned.
ExitCount(st, count, failed) ==
    IF failed THEN count + 1
    ELSE IF st = "half-open" THEN 0
    ELSE count

ExitState(st, count, failed) ==
    IF failed
    THEN IF OpensOnFailure(st, count + 1) THEN "open" ELSE st
    ELSE IF st = "half-open" THEN "closed" ELSE st

ExitLastFailure(last, t, failed) == IF failed THEN t ELSE last

\* The streak of failed calls counted from closed with failure count 0.
StreakAfterExit(st2, count2, failed) ==
    IF st2 = "closed" /\ count2 = 0 THEN 0
    ELSE IF failed /\ streak >= 0 THEN streak + 1
    ELSE -1

\* The breaker's operations touch nothing outside the breaker.
BreakerOnly == UNCHANGED <<qvars, bpvars, ivars, wvars, pvars>>

\* Execute, lines 43-58: lock, test the state, unlock; an open circuit whose
\* timeout has not elapsed returns ErrCircuitOpen at once.
CBEnter(c) ==
    /\ cpc[c] = "idle"
    /\ IF Admitted(state, lastFailure, now)
       THEN /\ state' = EnterState(state, lastFailure, now)
            /\ cpc' = [cpc EXCEPT ![c] = "running"]
            /\ cadm' = [cadm EXCEPT ![c] =
                          IF state = "open" THEN "probe" ELSE state]
            /\ cres' = [cres EXCEPT ![c] = "none"]
            /\ streak' = IF state = "open" THEN -1 ELSE streak
            /\ UNCHANGED rejectedAt
       ELSE /\ cres' = [cres EXCEPT ![c] = "CircuitOpen"]
            /\ rejectedAt' = now
            /\ UNCHANGED <<state, cpc, cadm, streak>>
    /\ UNCHANGED <<failureCount, lastFailure, now, openedAt>>
    /\ BreakerOnly

\* Execute, lines 61-91: fn returns (failed or not), lock, account for the
\* outcome, unlock, return it.
CBExit(c, failed) ==
    /\ cpc[c] = "running"
    /\ LET st2 == ExitState(state, failureCount, failed)
           count2 == ExitCount(state, failureCount, failed)
       IN  /\ state' = st2
           /\ failureCount' = count2
           /\ lastFailure' = ExitLastFailure(lastFailure, now, failed)
           /\ streak' = StreakAfterExit(st2, count2, failed)
           /\ openedAt' = IF st2 = "open" /\ state # "open" THEN now
                          ELSE openedAt
    /\ cpc' = [cpc EXCEPT ![c] = "idle"]
    /\ cadm' = [cadm EXCEPT ![c] = "none"]
    /\ cres' = [cres EXCEPT ![c] = IF failed THEN "err" ELSE "ok"]
    /\ UNCHANGED <<now, rejectedAt>>
    /\ BreakerOnly

\* The wall clock advances.
Tick ==
    /\ now < MaxTime
    /\ now' = now + 1
    /\ UNCHANGED <<state, failureCount, lastFailure, cvars>>
    /\ BreakerOnly

\* The wrapped function returns an error / returns nil.
CBExitFailure(c) == CBExit(c, TRUE)

CBExitSuccess(c) == CBExit(c, FALSE)

BreakerNext ==
    \/ \E c \in Callers : CBEnter(c)
    \/ \E c \in Callers : CBExitFailure(c)
    \/ \E c \in Callers : CBExitSuccess(c)
    \/ Tick

\* --------------------------------------------------------- NLP batch client
\* NewBatchProcessor: empty batch, no signal, done open, loop at its select.
BatchInit ==
    /\ currentBatch = <<>>
    /\ processingChan = 0
    /\ done = FALSE
    /\ bpc = "select"
    /\ batch = <<>>
    /\ bidx = 1
    /\ bkind = "none"
    /\ mailbox = [i \in BatchItems |-> "none"]
    /\ writes = [i \in BatchItems |-> 0]
    /\ ipc = [i \in BatchItems |-> "idle"]
    /\ nextCall = 1

\* The batch client touches the breaker but neither the queue nor the
\* breaker's direct callers.
BatchOnly == UNCHANGED <<qvars, cvars, ivars, wvars, pvars>>

\* Process, lines 136-138: empty text returns (nil, nil, nil) at once.
ProcessEmpty(i) ==
    /\ i = nextCall
    /\ nextCall' = nextCall + 1
    /\ ipc' = [ipc EXCEPT ![i] = "returned-empty"]
    /\ UNCHANGED <<cbvars, currentBatch, processingChan, done, bpc, batch,
                   bidx, bkind, mailbox, writes>>
    /\ BatchOnly

\* Process, lines 140-160: make the item with its one-slot mailbox, append it
\* under bp.mu and signal without blocking when the batch has reached B.
ProcessSubmit(i) ==
    /\ i = nextCall
    /\ nextCall' = nextCall + 1
    /\ currentBatch' = Append(currentBatch, i)
    /\ processingChan' = IF Len(currentBatch) + 1 >= BatchSize
                         THEN 1 ELSE processingChan
    /\ ipc' = [ipc EXCEPT ![i] = "waiting"]
    /\ UNCHANGED <<cbvars, done, bpc, batch, bidx, bkind, mailbox, writes>>
    /\ BatchOnly

\* Process, lines 164-168: the result arrives on resultCh.
ProcessReceive(i) ==
    /\ ipc[i] = "waiting"
    /\ mailbox[i] # "none"
    /\ mailbox' = [mailbox EXCEPT ![i] = "none"]
    /\ ipc' = [ipc EXCEPT ![i] = "received"]
    /\ UNCHANGED <<cbvars, currentBatch, processingChan, done, bpc, batch,
                   bidx, bkind, writes, nextCall>>
    /\ BatchOnly

\* Process, lines 169-170: the caller's context ends first; the item stays
\* where it is.
ProcessCancel(i) ==
    /\ ipc[i] = "waiting"
    /\ ipc' = [ipc EXCEPT ![i] = "cancelled"]
    /\ UNCHANGED <<cbvars, currentBatch, processingChan, done, bpc, batch,
                   bidx, bkind, mailbox, writes, nextCall>>
    /\ BatchOnly

\* Stop, lines 129-131: close(bp.done).
BatchStop ==
    /\ ~done
    /\ done' = TRUE
    /\ UNCHANGED <<cbvars, currentBatch, processingChan, bpc, batch, bidx,
                   bkind, mailbox, writes, ipc, nextCall>>
    /\ BatchOnly

\* processBatches, lines 181-182: case <-bp.done: return
LoopDone ==
    /\ bpc = "select"
    /\ done
    /\ bpc' = "exited"
    /\ UNCHANGED <<cbvars, currentBatch, processingChan, done, batch, bidx,
                   bkind, mailbox, writes, ipc, nextCall>>
    /\ BatchOnly

\* processBatches, lines 183-184: case <-bp.processingChan: processBatch()
LoopSignal ==
    /\ bpc = "select"
    /\ processingChan = 1
    /\ processingChan' = 0
    /\ bpc' = "swap"
    /\ UNCHANGED <<cbvars, currentBatch, done, batch, bidx, bkind, mailbox,
                   writes, ipc, nextCall>>
    /\ BatchOnly

\* processBatches, lines 185-186: case <-ticker.C: processBatch()
LoopTicker ==
    /\ bpc = "select"
    /\ bpc' = "swap"
    /\ UNCHANGED <<cbvars, currentBatch, processingChan, done, batch, bidx,
                   bkind, mailbox, writes, ipc, nextCall>>
    /\ BatchOnly

\* Variant: the batch is taken but bp.currentBatch is not reset.
SwapBatchKeep ==
    /\ bpc = "swap"
    /\ IF currentBatch = <<>>
       THEN bpc' = "select" /\ UNCHANGED batch
       ELSE bpc' = "state" /\ batch' = currentBatch
    /\ UNCHANGED <<cbvars, currentBatch, processingChan, done, bidx, bkind,
                   mailbox, writes, ipc, nextCall>>
    /\ BatchOnly

\* processBatch, lines 193-202: under bp.mu, return when the batch is empty,
\* otherwise take it and leave a fresh empty one.
SwapBatch ==
    /\ bpc = "swap"
    /\ IF currentBatch = <<>>
       THEN bpc' = "select" /\ UNCHANGED <<batch, currentBatch>>
       ELSE bpc' = "state" /\ batch' = currentBatch /\ currentBatch' = <<>>
    /\ UNCHANGED <<cbvars, processingChan, done, bidx, bkind, mailbox,
                   writes, ipc, nextCall>>
    /\ BatchOnly

\* The loop starts answering every item of batch with result kind.
StartDeliver(kind) ==
    /\ bpc' = "deliver"
    /\ bkind' = kind
    /\ bidx' = 1

\* processBatch, lines 209-219: circuitBreaker.State() == "open" answers
\* every item with ErrCircuitOpen.
CheckCircuit ==
    /\ bpc = "state"
    /\ IF state = "open"
       THEN StartDeliver("circuit-open")
       ELSE bpc' = "limiter" /\ UNCHANGED <<bkind, bidx>>
    /\ UNCHANGED <<cbvars, currentBatch, processingChan, done, batch,
                   mailbox, writes, ipc, nextCall>>
    /\ BatchOnly

\* processBatch, lines 222-237: rateLimiter.Wait with a 5 s deadline; on
\* error every item is answered with the rate-limit error.
RateLimit(ok) ==
    /\ bpc = "limiter"
    /\ IF ok
       THEN bpc' = "marshal" /\ UNCHANGED <<bkind, bidx>>
       ELSE StartDeliver("rate-limit")
    /\ UNCHANGED <<cbvars, currentBatch, processingChan, done, batch,
                   mailbox, writes, ipc, nextCall>>
    /\ BatchOnly

\* processBatch, lines 240-259: json.Marshal of the request; on error every
\* item is answered with it.
Marshal(ok) ==
    /\ bpc = "marshal"
    /\ IF ok
       THEN bpc' = "execute" /\ UNCHANGED <<bkind, bidx>>
       ELSE StartDeliver("marshal-error")
    /\ UNCHANGED <<cbvars, currentBatch, processingChan, done, batch,
                   mailbox, writes, ipc, nextCall>>
    /\ BatchOnly

\* processBatch, line 263 with Execute, lines 43-58: the breaker admits the
\* request or returns ErrCircuitOpen (lines 294-299).
ExecuteEnter ==
    /\ bpc = "execute"
    /\ IF Admitted(state, lastFailure, now)
       THEN /\ state' = EnterState(state, lastFailure, now)
            /\ bpc' = "http"
            /\ UNCHANGED <<bkind, bidx>>
       ELSE /\ StartDeliver("circuit-open")
            /\ UNCHANGED state
    /\ UNCHANGED <<failureCount, lastFailure, now, currentBatch,
                   processingChan, done, batch, mailbox, writes, ipc,
                   nextCall>>
    /\ BatchOnly

\* processBatch, lines 263-319 with Execute, lines 61-91: the POST ends.
\* "error": transport error, status other than 200 or undecodable body (the
\* breaker counts a failure); "mismatch": decoded, but no results list of
\* the batch's length; "results": a results list of the batch's length.
ExecuteExit(outcome) ==
    /\ bpc = "http"
    /\ LET failed == (outcome = "error")
       IN  /\ state' = ExitState(state, failureCount, failed)
           /\ failureCount' = ExitCount(state, failureCount, failed)
           /\ lastFailure' = ExitLastFailure(lastFailure, now, failed)
    /\ StartDeliver(CASE outcome = "error" -> "request-error"
                      [] outcome = "mismatch" -> "format-error"
                      [] OTHER -> "result")
    /\ UNCHANGED <<now, currentBatch, processingChan, done, batch, mailbox,
                   writes, ipc, nextCall>>
    /\ BatchOnly

\* Variant: the results are handed out from the last item backwards.
ItemForResultReversed(b, i) == b[Len(b) + 1 - i]

\* processBatch, lines 322-366: the entry at index i of resultsList is
\* parsed and sent to batch[i].resultCh.
ItemForResult(b, i) == b[i]

\* processBatch, the sends item.resultCh <- nlpResult{...} of lines 213-217,
\* 231-235, 255-257, 295-297, 304-306, 315-317 and 322-371: one send per
\* item of batch, in order; a send waits while the mailbox is full. In the
\* per-result loop an entry that is no object is answered "invalid-result".
Deliver(valid) ==
    /\ bpc = "deliver"
    /\ bidx <= Len(batch)
    /\ valid \/ bkind = "result"
    /\ LET item == IF bkind = "result" THEN ItemForResult(batch, bidx)
                   ELSE batch[bidx]
       IN  /\ mailbox[item] = "none"
           /\ mailbox' = [mailbox EXCEPT ![item] =
                             IF valid THEN bkind ELSE "invalid-result"]
           /\ writes' = [writes EXCEPT ![item] = @ + 1]
    /\ bidx' = bidx + 1
    /\ UNCHANGED <<cbvars, currentBatch, processingChan, done, bpc, batch,
                   bkind, ipc, nextCall>>
    /\ BatchOnly

\* processBatch returns to the select of processBatches.
DeliverEnd ==
    /\ bpc = "deliver"
    /\ bidx > Len(batch)
    /\ bpc' = "select"
    /\ batch' = <<>>
    /\ bidx' = 1
    /\ bkind' = "none"
    /\ UNCHANGED <<cbvars, currentBatch, processingChan, done, mailbox,
                   writes, ipc, nextCall>>
    /\ BatchOnly

BatchNext ==
    \/ \E i \in BatchItems : ProcessEmpty(i)
    \/ \E i \in BatchItems : ProcessSubmit(i)
    \/ \E i \in BatchItems : ProcessReceive(i)
    \/ \E i \in BatchItems : ProcessCancel(i)
    \/ BatchStop
    \/ LoopDone
    \/ LoopSignal
    \/ LoopTicker
    \/ SwapBatch
    \/ CheckCircuit
    \/ \E ok \in BOOLEAN : RateLimit(ok)
    \/ \E ok \in BOOLEAN : Marshal(ok)
    \/ ExecuteEnter
    \/ \E outcome \in {"error", "mismatch", "results"} : ExecuteExit(outcome)
    \/ \E valid \in BOOLEAN : Deliver(valid)
    \/ DeliverEnd

\* ------------------------------------------------------------ bulk indexer
\* The name of the index written in every meta line (indexer.indexName).
IndexName == "pages"

\* The status codes the backend answers with.
StatusCodes == {200, 500}

\* NewBulkIndexer: empty buffer, no signal, done open, flush loop started.
IndexerInit ==
    /\ buffer = <<>>
    /\ flushChannel = 0
    /\ idone = FALSE
    /\ iwg = 0
    /\ elasticURL = "unchecked"
    /\ fpc = "select"
    /\ ffinal = FALSE
    /\ docsToIndex = <<>>
    /\ tasks = <<>>
    /\ bulkFlushes = 0
    /\ bulkFailures = 0
    /\ added = <<>>
    /\ lateAdds = {}

\* The indexer, its callers and main touch neither the per-call state of
\* the fine-grained queue model, nor the breaker, nor the batch client.
PipelineOnly ==
    UNCHANGED <<mu, qpc, qop, qarg, qres, qpre, qlate, cbvars, cvars, bpvars,
                pvars>>

\* The queue as its callers see it between two calls, with its history.
qstate == <<q, closed, nextItem, accepted, removed, closeDone>>

\* What the indexer's own steps leave alone outside the indexer.
IndexerOnly ==
    /\ UNCHANGED qstate
    /\ UNCHANGED <<wpc, wpage, wcount, pageText, textVerdict, presult, sigs,
                   redisFailed, duplicatesDetected, cancelled>>
    /\ PipelineOnly

\* generateDocID: the _id derived from the document's URLs.
GenerateDocID(d) == <<"id", d>>

\* flush, lines 107-119: the meta line of a document, newline-terminated.
MetaLine(d) == <<"meta", IndexName, GenerateDocID(d)>>

\* flush, lines 121-127: the JSON line of a document, newline-terminated.
DocLine(d) == <<"doc", d>>

\* flush, lines 102-128: the NDJSON payload of docs, as its sequence of
\* lines. unencodable holds the documents json.Marshal fails on (a
\* time.Time field with a year outside 0..9999, as gob can carry): their
\* meta line is already written when the loop continues. The meta map holds
\* only strings and always encodes.
RECURSIVE BuildNDJSON(_, _)
BuildNDJSON(docs, unencodable) ==
    IF docs = <<>> THEN <<>>
    ELSE LET d == Head(docs)
         IN  <<MetaLine(d)>>
             \o (IF d \in unencodable THEN <<>> ELSE <<DocLine(d)>>)
             \o BuildNDJSON(Tail(docs), unencodable)

\* AddDocumentToIndexerPayload, lines 74-77: lock, append, read the count,
\* unlock. The caller goes on to the threshold test at pc "signal".
AppendDoc(w, d) ==
    /\ buffer' = Append(buffer, d)
    /\ wcount' = [wcount EXCEPT ![w] = Len(buffer) + 1]
    /\ wpc' = [wpc EXCEPT ![w] = "signal"]
    /\ added' = Append(added, d)
    /\ lateAdds' = IF ffinal THEN lateAdds \cup {d} ELSE lateAdds

\* A task that holds a finished document calls AddDocumentToIndexerPayload.
CallerAdd(w) ==
    /\ wpc[w] = "select"
    /\ nextItem <= MaxDocs
    /\ nextItem' = nextItem + 1
    /\ AppendDoc(w, nextItem)
    /\ UNCHANGED <<q, closed, accepted, removed, closeDone>>
    /\ UNCHANGED <<flushChannel, idone, iwg, elasticURL, fpc, ffinal,
                   docsToIndex, tasks, bulkFlushes, bulkFailures>>
    /\ UNCHANGED <<wpage, pageText, textVerdict, presult, sigs, redisFailed,
                   duplicatesDetected, cancelled, mpc>>
    /\ PipelineOnly

\* Variant: the send on flushChannel blocks while a signal is pending.
AddSignalBlocking(w) ==
    /\ wpc[w] = "signal"
    /\ wcount[w] >= BulkThreshold => flushChannel = 0
    /\ flushChannel' = IF wcount[w] >= BulkThreshold THEN 1
                       ELSE flushChannel
    /\ wpc' = [wpc EXCEPT ![w] = "select"]
    /\ wcount' = [wcount EXCEPT ![w] = 0]
    /\ wpage' = [wpage EXCEPT ![w] = NoItem]
    /\ UNCHANGED qstate
    /\ UNCHANGED <<buffer, idone, iwg, elasticURL, fpc, ffinal, docsToIndex,
                   tasks, bulkFlushes, bulkFailures, added, lateAdds>>
    /\ UNCHANGED <<pageText, textVerdict, presult, sigs, redisFailed,
                   duplicatesDetected, cancelled, mpc>>
    /\ PipelineOnly

\* AddDocumentToIndexerPayload, lines 80-86: at or above the threshold, a
\* non-blocking send on flushChannel (capacity 1); then the call returns.
AddSignal(w) ==
    /\ wpc[w] = "signal"
    /\ flushChannel' = IF wcount[w] >= BulkThreshold THEN 1
                       ELSE flushChannel
    /\ wpc' = [wpc EXCEPT ![w] = "select"]
    /\ wcount' = [wcount EXCEPT ![w] = 0]
    /\ wpage' = [wpage EXCEPT ![w] = NoItem]
    /\ UNCHANGED qstate
    /\ UNCHANGED <<buffer, idone, iwg, elasticURL, fpc, ffinal, docsToIndex,
                   tasks, bulkFlushes, bulkFailures, added, lateAdds>>
    /\ UNCHANGED <<pageText, textVerdict, presult, sigs, redisFailed,
                   duplicatesDetected, cancelled, mpc>>
    /\ PipelineOnly

\* startFlushing, lines 59-63: the <-indexer.done case; the flush that
\* follows is the final one.
FlushDone ==
    /\ fpc = "select"
    /\ idone
    /\ fpc' = "flush"
    /\ ffinal' = TRUE
    /\ UNCHANGED <<buffer, flushChannel, idone, iwg, elasticURL, docsToIndex,
                   tasks, bulkFlushes, bulkFailures, added, lateAdds, mpc>>
    /\ IndexerOnly

\* Variant: the signal is received but no flush follows.
FlushSignalDropped ==
    /\ fpc = "select"
    /\ flushChannel = 1
    /\ flushChannel' = 0
    /\ UNCHANGED <<buffer, idone, iwg, elasticURL, fpc, ffinal, docsToIndex,
                   tasks, bulkFlushes, bulkFailures, added, lateAdds, mpc>>
    /\ IndexerOnly

\* startFlushing, lines 64-65: the <-indexer.flushChannel case.
FlushSignal ==
    /\ fpc = "select"
    /\ flushChannel = 1
    /\ flushChannel' = 0
    /\ fpc' = "flush"
    /\ UNCHANGED <<buffer, idone, iwg, elasticURL, ffinal, docsToIndex,
                   tasks, bulkFlushes, bulkFailures, added, lateAdds, mpc>>
    /\ IndexerOnly

\* startFlushing, lines 66-67: the <-ticker.C case.
FlushTicker ==
    /\ fpc = "select"
    /\ fpc' = "flush"
    /\ UNCHANGED <<buffer, flushChannel, idone, iwg, elasticURL, ffinal,
                   docsToIndex, tasks, bulkFlushes, bulkFailures, added,
                   lateAdds, mpc>>
    /\ IndexerOnly

\* Where the loop goes when flush returns: back to the select, or out of
\* startFlushing after the final flush.
AfterFlush == IF ffinal THEN "exited" ELSE "select"

\* Variant: the buffer is swapped and the flush counted even when empty.
FlushSwapAlways ==
    /\ fpc = "flush"
    /\ docsToIndex' = buffer
    /\ buffer' = <<>>
    /\ bulkFlushes' = bulkFlushes + 1
    /\ fpc' = "build"
    /\ UNCHANGED <<flushChannel, idone, iwg, elasticURL, ffinal, tasks,
                   bulkFailures, added, lateAdds, mpc>>
    /\ IndexerOnly

\* flush, lines 91-100: lock; an empty buffer returns at once; otherwise the
\* buffer is swapped for a fresh one; unlock; count the flush.
FlushSwap ==
    /\ fpc = "flush"
    /\ IF buffer = <<>>
       THEN /\ fpc' = AfterFlush
            /\ UNCHANGED <<buffer, docsToIndex, bulkFlushes>>
       ELSE /\ docsToIndex' = buffer
            /\ buffer' = <<>>
            /\ bulkFlushes' = bulkFlushes + 1
            /\ fpc' = "build"
    /\ UNCHANGED <<flushChannel, idone, iwg, elasticURL, ffinal, tasks,
                   bulkFailures, added, lateAdds, mpc>>
    /\ IndexerOnly

\* flush, lines 102-135: build the payload, wg.Add(1), start the request
\* task at attempt 0; flush returns.
FlushSpawn ==
    /\ fpc = "build"
    /\ \E unencodable \in SUBSET Range(docsToIndex) :
         tasks' = Append(tasks,
                         [docs |-> docsToIndex,
                          lines |-> BuildNDJSON(docsToIndex, unencodable),
                          attempt |-> 0,
                          status |-> "running",
                          final |-> ffinal,
                          posts |-> 0,
                          fails |-> 0,
                          sawOk |-> FALSE,
                          counted |-> 0])
    /\ iwg' = iwg + 1
    /\ docsToIndex' = <<>>
    /\ fpc' = AfterFlush
    /\ UNCHANGED <<buffer, flushChannel, idone, elasticURL, ffinal,
                   bulkFlushes, bulkFailures, added, lateAdds, mpc>>
    /\ IndexerOnly

\* Variant: the retry test admits one attempt too many (<= for <).
RetryAllowedInclusive(attempt) == attempt <= MaxRetries

\* sendBulkRequest, lines 157 and 172: attempt < indexer.maxRetries.
RetryAllowed(attempt) == attempt < MaxRetries

\* Variant: the lower limit is exclusive (> for >=).
IsSuccessExclusive(code) == code > 200 /\ code < 300

\* sendBulkRequest, line 167: a status in [200, 300) is a success.
IsSuccess(code) == code >= 200 /\ code < 300

\* What the steps of a request task leave alone.
TaskOnly ==
    /\ UNCHANGED <<buffer, flushChannel, idone, fpc, ffinal, docsToIndex,
                   bulkFlushes, added, lateAdds, mpc>>
    /\ IndexerOnly

\* sendBulkRequest, lines 154-163 and 169-177: a POST that failed. Below
\* the retry limit the task sleeps and calls itself with attempt + 1;
\* otherwise it counts one bulk failure and returns (wg.Done runs).
FailedPost(t, task) ==
    IF RetryAllowed(task.attempt)
    THEN /\ tasks' = [tasks EXCEPT ![t] = [task EXCEPT
                         !.attempt = @ + 1]]
         /\ UNCHANGED <<bulkFailures, iwg>>
    ELSE /\ tasks' = [tasks EXCEPT ![t] = [task EXCEPT
                         !.status = "exhausted",
                         !.counted = @ + 1]]
         /\ bulkFailures' = bulkFailures + 1
         /\ iwg' = iwg - 1

\* sendBulkRequest, lines 146-150: http.NewRequestWithContext rejects the
\* configured URL; the task returns at once (wg.Done runs), nothing is
\* posted and nothing is counted.
SendBuildError(t) ==
    /\ t \in 1..Len(tasks)
    /\ tasks[t].status = "running"
    /\ elasticURL \in {"unchecked", "invalid"}
    /\ elasticURL' = "invalid"
    /\ tasks' = [tasks EXCEPT ![t].status = "build-error"]
    /\ iwg' = iwg - 1
    /\ UNCHANGED bulkFailures
    /\ TaskOnly

\* sendBulkRequest, lines 153-163: http.DefaultClient.Do returns an error.
SendTransportError(t) ==
    /\ t \in 1..Len(tasks)
    /\ tasks[t].status = "running"
    /\ elasticURL \in {"unchecked", "valid"}
    /\ elasticURL' = "valid"
    /\ FailedPost(t, [tasks[t] EXCEPT !.posts = @ + 1, !.fails = @ + 1])
    /\ TaskOnly

\* sendBulkRequest, lines 153 and 165-178: the backend answers with a
\* status code.
SendResponse(t, code) ==
    /\ t \in 1..Len(tasks)
    /\ tasks[t].status = "running"
    /\ elasticURL \in {"unchecked", "valid"}
    /\ elasticURL' = "valid"
    /\ LET ok == code \in 200..299
           task == [tasks[t] EXCEPT
                       !.posts = @ + 1,
                       !.fails = IF ok THEN @ ELSE @ + 1,
                       !.sawOk = @ \/ ok]
       IN  IF IsSuccess(code)
           THEN /\ tasks' = [tasks EXCEPT ![t] = [task EXCEPT
                                !.status = "ok"]]
                /\ iwg' = iwg - 1
                /\ UNCHANGED bulkFailures
           ELSE FailedPost(t, task)
    /\ TaskOnly

\* Stop, line 140: close(indexer.done); the caller goes on to wg.Wait().
StopClose(from) ==
    /\ mpc = from
    /\ idone' = TRUE
    /\ mpc' = "indexer-wait"
    /\ UNCHANGED <<buffer, flushChannel, iwg, elasticURL, fpc, ffinal,
                   docsToIndex, tasks, bulkFlushes, bulkFailures, added,
                   lateAdds>>
    /\ IndexerOnly

\* Stop called directly on the indexer (as the tests' deferred Stop does).
CallStop == StopClose("serving")

\* Stop, line 141: wg.Wait() returns once the counter is zero; Stop returns.
StopWait ==
    /\ mpc = "indexer-wait"
    /\ iwg = 0
    /\ mpc' = "stopped"
    /\ UNCHANGED ivars
    /\ IndexerOnly

IndexerNext ==
    \/ \E w \in Procs : CallerAdd(w)
    \/ \E w \in Procs : AddSignal(w)
    \/ FlushDone
    \/ FlushSignal
    \/ FlushTicker
    \/ FlushSwap
    \/ FlushSpawn
    \/ \E t \in 1..MaxDocs : SendBuildError(t)
    \/ \E t \in 1..MaxDocs : SendTransportError(t)
    \/ \E t \in 1..MaxDocs, code \in StatusCodes : SendResponse(t, code)
    \/ CallStop
    \/ StopWait

\* ------------------------------------------- ingest, workers and shutdown
\* NewWorkerPool / New: idle workers, no page seen, empty signature set,
\* main serving.
PipelineInit ==
    /\ wpc = [w \in Procs |-> "select"]
    /\ wpage = [w \in Procs |-> NoItem]
    /\ wcount = [w \in Procs |-> 0]
    /\ pageText = <<>>
    /\ textVerdict = [x \in Texts |-> "unknown"]
    /\ presult = <<>>
    /\ sigs = {}
    /\ redisFailed = FALSE
    /\ duplicatesDetected = 0
    /\ cancelled = FALSE
    /\ mpc = "serving"

\* strings.TrimSpace: the space is the only white space of the alphabet.
RECURSIVE TrimLeft(_)
TrimLeft(s) ==
    IF s # <<>> /\ Head(s) = " " THEN TrimLeft(Tail(s)) ELSE s

RECURSIVE TrimRight(_)
TrimRight(s) ==
    IF s # <<>> /\ s[Len(s)] = " "
    THEN TrimRight(SubSeq(s, 1, Len(s) - 1))
    ELSE s

TrimSpace(s) == TrimRight(TrimLeft(s))

\* GenerateSignature (deduplicator.go 80-84): the SHA-256 of the text
\* after strings.TrimSpace; texts equal after trimming give equal
\* signatures, and texts that differ after trimming are taken to give
\* different ones.
GenerateSignature(text) == <<"sha256", TrimSpace(text)>>

\* The ingest handler decodes a page and calls EnqueuePageData, that is
\* queue.Insert: the page is appended when the queue is open and not full,
\* and refused otherwise.
IngestPage(text, limit) ==
    /\ nextItem <= limit
    /\ IF InsertOutcome(closed, Len(q)) = "ok"
       THEN /\ q' = Append(q, nextItem)
            /\ accepted' = Append(accepted, nextItem)
            /\ nextItem' = nextItem + 1
            /\ pageText' = Append(pageText, text)
            /\ presult' = Append(presult, "none")
       ELSE UNCHANGED <<q, accepted, nextItem, pageText, presult>>
    /\ UNCHANGED <<closed, removed, closeDone>>
    /\ UNCHANGED ivars
    /\ UNCHANGED <<wpc, wpage, wcount, textVerdict, sigs, redisFailed,
                   duplicatesDetected, cancelled, mpc>>
    /\ PipelineOnly

\* Variant: the worker also returns when it finds the queue empty.
WorkerExitOnEmpty(w) ==
    /\ wpc[w] = "select"
    /\ cancelled \/ Len(q) = 0
    /\ wpc' = [wpc EXCEPT ![w] = "exited"]
    /\ UNCHANGED qstate
    /\ UNCHANGED ivars
    /\ UNCHANGED <<wpage, wcount, pageText, textVerdict, presult, sigs,
                   redisFailed, duplicatesDetected, cancelled, mpc>>
    /\ PipelineOnly

\* Variant: a done context stops the worker wherever it is.
WorkerExitAbort(w) ==
    /\ wpc[w] # "exited"
    /\ cancelled
    /\ wpc' = [wpc EXCEPT ![w] = "exited"]
    /\ UNCHANGED qstate
    /\ UNCHANGED ivars
    /\ UNCHANGED <<wpage, wcount, pageText, textVerdict, presult, sigs,
                   redisFailed, duplicatesDetected, cancelled, mpc>>
    /\ PipelineOnly

\* runWorker, lines 59-62: the context is done, the worker returns and its
\* deferred wg.Done runs.
WorkerExit(w) ==
    /\ wpc[w] = "select"
    /\ cancelled
    /\ wpc' = [wpc EXCEPT ![w] = "exited"]
    /\ UNCHANGED qstate
    /\ UNCHANGED ivars
    /\ UNCHANGED <<wpage, wcount, pageText, textVerdict, presult, sigs,
                   redisFailed, duplicatesDetected, cancelled, mpc>>
    /\ PipelineOnly

\* runWorker, lines 63-69: the context is not done; queue.Remove returns
\* the oldest page, or the empty error after which the worker sleeps and
\* starts over.
WorkerRemove(w) ==
    /\ wpc[w] = "select"
    /\ ~cancelled
    /\ IF Len(q) > 0
       THEN /\ q' = Tail(q)
            /\ removed' = Append(removed, RemoveTarget(q))
            /\ wpage' = [wpage EXCEPT ![w] = RemoveTarget(q)]
            /\ wpc' = [wpc EXCEPT ![w] = "process"]
       ELSE UNCHANGED <<q, removed, wpage, wpc>>
    /\ UNCHANGED <<closed, nextItem, accepted, closeDone>>
    /\ UNCHANGED ivars
    /\ UNCHANGED <<wcount, pageText, textVerdict, presult, sigs,
                   redisFailed, duplicatesDetected, cancelled, mpc>>
    /\ PipelineOnly

\* Variant: the document is added whatever Process returned.
AfterProcessAlways(res) == "add"

\* runWorker, lines 72-89: AddDocumentToIndexerPayload is called only when
\* Process returned nil; otherwise the worker starts over.
AfterProcess(res) == IF res = "ok" THEN "add" ELSE "select"

\* Process returns res for the page of worker w; runWorker, lines 79-81,
\* counts a duplicate when the error is "duplicate page detected".
ProcessReturns(w, res) ==
    /\ presult' = [presult EXCEPT ![wpage[w]] = res]
    /\ wpc' = [wpc EXCEPT ![w] = AfterProcess(res)]
    /\ wpage' = [wpage EXCEPT ![w] =
                    IF AfterProcess(res) = "add" THEN @ ELSE NoItem]
    /\ duplicatesDetected' = IF res = "duplicate"
                             THEN duplicatesDetected + 1
                             ELSE duplicatesDetected

\* IsDuplicate (deduplicator.go 57-68): SISMEMBER; a Redis error is logged
\* and answered "not duplicate".
IsDuplicate(signature, redisUp) == redisUp /\ signature \in sigs

\* Process, lines 59-67: cleanAndNormalize fails on an empty, relative or
\* unparsable URL; then the signature of the visible text is looked up.
WorkerCheck(w, urlOk, redisUp) ==
    /\ wpc[w] = "process"
    /\ LET signature == GenerateSignature(pageText[wpage[w]])
       IN  IF ~urlOk
           THEN /\ ProcessReturns(w, "invalid-url")
                /\ UNCHANGED redisFailed
           ELSE /\ redisFailed' = (redisFailed \/ ~redisUp)
                /\ IF IsDuplicate(signature, redisUp)
                   THEN ProcessReturns(w, "duplicate")
                   ELSE /\ wpc' = [wpc EXCEPT ![w] = "store"]
                        /\ UNCHANGED <<presult, wpage, duplicatesDetected>>
    /\ UNCHANGED qstate
    /\ UNCHANGED ivars
    /\ UNCHANGED <<wcount, pageText, textVerdict, sigs, cancelled, mpc>>
    /\ PipelineOnly

\* Process, lines 70-103: StoreSignature (SADD; a Redis error is only
\* logged), then language detection, spam detection and enrichment, which
\* depend on the text alone: "non-english", "high-spam", or "ok". Enrich
\* never returns an error.
WorkerStore(w, redisUp, verdict) ==
    /\ wpc[w] = "store"
    /\ LET text == pageText[wpage[w]]
           v == IF textVerdict[text] = "unknown" THEN verdict
                ELSE textVerdict[text]
       IN  /\ sigs' = IF redisUp THEN sigs \cup {GenerateSignature(text)}
                      ELSE sigs
           /\ redisFailed' = (redisFailed \/ ~redisUp)
           /\ textVerdict' = [textVerdict EXCEPT ![text] = v]
           /\ ProcessReturns(w, v)
    /\ UNCHANGED qstate
    /\ UNCHANGED ivars
    /\ UNCHANGED <<wcount, pageText, cancelled, mpc>>
    /\ PipelineOnly

\* runWorker, line 88, with AddDocumentToIndexerPayload, lines 74-77.
WorkerAdd(w) ==
    /\ wpc[w] = "add"
    /\ AppendDoc(w, wpage[w])
    /\ UNCHANGED qstate
    /\ UNCHANGED <<flushChannel, idone, iwg, elasticURL, fpc, ffinal,
                   docsToIndex, tasks, bulkFlushes, bulkFailures>>
    /\ UNCHANGED <<wpage, pageText, textVerdict, presult, sigs, redisFailed,
                   duplicatesDetected, cancelled, mpc>>
    /\ PipelineOnly

\* main, lines 286-291: a signal arrives, the root context is cancelled;
\* after a sleep main calls Administrator.Stop.
MainSignal ==
    /\ mpc = "serving"
    /\ cancelled' = TRUE
    /\ mpc' = "close"
    /\ UNCHANGED qstate
    /\ UNCHANGED ivars
    /\ UNCHANGED <<wpc, wpage, wcount, pageText, textVerdict, presult, sigs,
                   redisFailed, duplicatesDetected>>
    /\ PipelineOnly

\* Administrator.Stop, line 192: queue.Close().
AdminClose ==
    /\ mpc = "close"
    /\ closed' = TRUE
    /\ closeDone' = TRUE
    /\ mpc' = "wait"
    /\ UNCHANGED <<q, nextItem, accepted, removed>>
    /\ UNCHANGED ivars
    /\ UNCHANGED <<wpc, wpage, wcount, pageText, textVerdict, presult, sigs,
                   redisFailed, duplicatesDetected, cancelled>>
    /\ PipelineOnly

\* Variant: Wait returns without looking at the workers.
WorkersDoneAtOnce == TRUE

\* WorkerPool.Wait: the WaitGroup counter is zero once every worker has
\* returned.
WorkersDone == \A w \in Procs : wpc[w] = "exited"

\* Administrator.Stop, line 196: workerPool.Wait() returns.
AdminWait ==
    /\ mpc = "wait"
    /\ WorkersDone
    /\ mpc' = "indexer-stop"
    /\ UNCHANGED qstate
    /\ UNCHANGED ivars
    /\ UNCHANGED <<wpc, wpage, wcount, pageText, textVerdict, presult, sigs,
                   redisFailed, duplicatesDetected, cancelled>>
    /\ PipelineOnly

\* Administrator.Stop, line 200: indexer.Stop() begins.
AdminStopIndexer == StopClose("indexer-stop")

\* The steps of the worker pool while the service runs.
WorkersNext ==
    \/ \E w \in Procs : WorkerRemove(w)
    \/ \E w \in Procs, urlOk, redisUp \in BOOLEAN :
            WorkerCheck(w, urlOk, redisUp)
    \/ \E w \in Procs, redisUp \in BOOLEAN,
          verdict \in {"ok", "non-english", "high-spam"} :
            WorkerStore(w, redisUp, verdict)
    \/ \E w \in Procs : WorkerAdd(w)
    \/ \E w \in Procs : AddSignal(w)

\* Pages arrive and the workers handle them.
ServiceNext ==
    \/ \E text \in Texts : IngestPage(text, MaxPages)
    \/ WorkersNext

PipelineNext ==
    \/ \E text \in Texts : IngestPage(text, MaxShutdownPages)
    \/ WorkersNext
    \/ \E w \in Procs : WorkerExit(w)
    \/ FlushDone
    \/ FlushSignal
    \/ FlushTicker
    \/ FlushSwap
    \/ FlushSpawn
    \/ \E t \in 1..MaxShutdownPages, code \in {c \in StatusCodes : IsSuccess(c)} :
            SendResponse(t, code)
    \/ MainSignal
    \/ AdminClose
    \/ AdminWait
    \/ AdminStopIndexer
    \/ StopWait

\* ------------------------------------------------------------ document ids
\* Strings are sequences of one-character strings. The characters that
\* occur in the modelled URLs: letters, a digit, the three other safe
\* characters, the seven characters sanitizeID replaces, and two characters
\* it drops.
LowerChars == {"a", "h", "p", "s", "t"}
UpperChars == {"A", "Z"}
DigitChars == {"9"}

\* sanitizeID, line 217: the test that keeps a character.
IsSafeChar(r) ==
    \/ r \in LowerChars
    \/ r \in UpperChars
    \/ r \in DigitChars
    \/ r = "_"
    \/ r = "."
    \/ r = "-"

\* The prefixes removed by sanitizeID, lines 202-203.
HttpPrefix == <<"h", "t", "t", "p", ":", "/", "/">>
HttpsPrefix == <<"h", "t", "t", "p", "s", ":", "/", "/">>

\* strings.HasPrefix.
HasPrefix(s, prefix) ==
    /\ Len(s) >= Len(prefix)
    /\ SubSeq(s, 1, Len(prefix)) = prefix

\* strings.Contains.
Contains(s, substr) ==
    \E i \in 1..(Len(s) - Len(substr) + 1) :
        SubSeq(s, i, i + Len(substr) - 1) = substr

\* strings.ReplaceAll(s, old, ""): the non-overlapping occurrences of old,
\* found from the left, are removed. No proper suffix of either protocol
\* prefix is a prefix of it, so two occurrences never overlap and every
\* occurrence is removed: the characters left are those no occurrence
\* covers, in their order.
RemoveAll(s, old) ==
    LET starts ==
            {j \in 1..(Len(s) - Len(old) + 1) :
                /\ s[j] = old[1]
                /\ SubSeq(s, j, j + Len(old) - 1) = old}
        Covered(i) == \E j \in starts : j <= i /\ i < j + Len(old)
        indexed == [i \in 1..Len(s) |-> <<i, s[i]>>]
        kept == SelectSeq(indexed, LAMBDA c : ~Covered(c[1]))
    IN  [i \in 1..Len(kept) |-> kept[i][2]]

\* sanitizeID, lines 206-212: the characters replaced by an underscore.
ReplacedChars == {"/", "?", "&", "=", "#", " ", ":"}

ReplaceProblematic(s) ==
    [i \in 1..Len(s) |-> IF s[i] \in ReplacedChars THEN "_" ELSE s[i]]

\* sanitizeID, lines 215-220: keep the characters that pass the test.
KeepSafe(s) == SelectSeq(s, IsSafeChar)

\* sanitizeID, line 224: the longest id returned.
MaxIDLength == 100

TruncateNone(s) == s

\* sanitizeID, lines 223-226.
Truncate(s) ==
    IF Len(s) > MaxIDLength THEN SubSeq(s, 1, MaxIDLength) ELSE s

\* sanitizeID, lines 200-229.
sanitizeID(raw) ==
    Truncate(KeepSafe(ReplaceProblematic(
        RemoveAll(RemoveAll(raw, HttpPrefix), HttpsPrefix))))

\* generateDocID, lines 192-197.
generateDocID(urlStr, canonicalStr) ==
    IF TrimSpace(canonicalStr) # <<>>
    THEN sanitizeID(canonicalStr)
    ELSE sanitizeID(urlStr)

\* The strings given to generateDocID: up to MaxIDTokens pieces, each a
\* protocol prefix or a single character, followed by a run of one letter
\* that is either empty or as long as the longest id.
MaxIDTokens == 2

IDTokens ==
    {HttpPrefix, HttpsPrefix, <<"/">>, <<"?">>, <<"&">>, <<"=">>, <<"#">>,
     <<" ">>, <<":">>, <<"a">>, <<"Z">>, <<"9">>, <<"_">>, <<".">>, <<"-">>,
     <<"%">>, <<"~">>}

RECURSIVE Concat(_)
Concat(ts) == IF ts = <<>> THEN <<>> ELSE Head(ts) \o Concat(Tail(ts))

LongStrings ==
    {Concat(ts) \o LetterRun(n) :
        ts \in UNION {[1..k -> IDTokens] : k \in 0..MaxIDTokens},
        n \in {0, MaxIDLength}}

\* Short strings: empty, blank, and one with a space on both sides.
ShortStrings == {<<>>, <<" ">>, <<" ", " ">>, <<"a">>, <<" ", "/", "a", " ">>}

DocIDInit ==
    idgen = [pc |-> "idle", urlStr |-> <<>>, canonicalStr |-> <<>>,
             docID |-> <<>>]

\* generateDocID touches nothing but its own call.
DocIDOnly ==
    UNCHANGED <<qvars, cbvars, cvars, bpvars, ivars, wvars,
                ppc, pcalls, pageData, document, perr, trail>>

\* flush, line 106: generateDocID is called with the document's URL and
\* canonical URL.
DocIDCall(urlStr, canonicalStr) ==
    /\ idgen.pc = "idle"
    /\ idgen' = [pc |-> "called", urlStr |-> urlStr,
                 canonicalStr |-> canonicalStr, docID |-> <<>>]
    /\ DocIDOnly

\* generateDocID returns.
DocIDReturn ==
    /\ idgen.pc = "called"
    /\ idgen' = [idgen EXCEPT
                    !.pc = "returned",
                    !.docID = generateDocID(idgen.urlStr, idgen.canonicalStr)]
    /\ DocIDOnly

\* ------------------------------------------------------ processing stages
\* The zero value models.Document{} that runWorker passes to Process
\* (worker_pool.go:71-72). URL and VisibleText are strings; the other
\* strings and the lists are held by their length, which is all that is
\* read of them.
ZeroDocument ==
    [URL |-> <<>>, VisibleText |-> <<>>, Language |-> "", Title |-> 0,
     MetaDescription |-> 0, Entities |-> 0, Keywords |-> 0,
     InternalLinks |-> 0, ExternalLinks |-> 0, IsSecure |-> FALSE,
     LoadTime |-> 0, SpamScore |-> 0, QualityScore |-> 0]

\* No page: the worker is between two iterations of its loop.
NoPage == [URL |-> <<>>, VisibleText |-> <<>>, Language |-> ""]

ProcessInit ==
    /\ ppc = "idle"
    /\ pcalls = 0
    /\ pageData = NoPage
    /\ document = ZeroDocument
    /\ perr = "none"
    /\ trail = <<>>

\* Number of Process calls made in a run, number of pieces a page URL is
\* built from, number of pieces a visible text is built from, and the block
\* threshold S passed to NewSpamDetector (any value > 0).
MaxCalls == 2
MaxURLTokens == 2
MaxTextTokens == 4
SpamBlockThreshold == 3

\* The page URLs: up to MaxURLTokens pieces, each white space, a slash, the
\* scheme-relative prefix, the scheme separator or a letter.
SchemeSeparator == <<":", "/", "/">>
SchemeRelative == <<"/", "/">>

URLTokens ==
    {<<" ">>, <<"/">>, SchemeRelative, SchemeSeparator, <<"a">>, <<"A">>}

PageURLs ==
    {Concat(ts) : ts \in UNION {[1..k -> URLTokens] : k \in 0..MaxURLTokens}}

\* One URL that normalizeURL rejects and one it accepts.
FewURLs == {<<>>, <<"/", "/", "a">>}

\* DetectLanguage, line 13: texts shorter than this are not examined.
MinTextLength == 20

\* The visible texts: every text of up to MaxTextTokens characters, each a
\* space or a letter.
PageTexts ==
    UNION {[1..k -> {" ", "a"}] : k \in 0..MaxTextTokens}

\* The empty text, and a word on either side of DetectLanguage's minimum.
FewTexts == {<<>>, LetterRun(MinTextLength - 1), LetterRun(MinTextLength)}

\* The empty text, and a word on either side of calculateQualityScore's
\* length test.
LongTexts == {<<>>, LetterRun(100), LetterRun(101)}

\* basicHTMLCleanup, lines 133-135:
\* strings.Join(strings.Fields(strings.TrimSpace(input)), " "). Of the
\* trimmed text every character is kept but a space that follows a space.
basicHTMLCleanup(input) ==
    LET t == TrimSpace(input)
        indexed == [i \in 1..Len(t) |-> <<i, t[i]>>]
        kept == SelectSeq(indexed,
                          LAMBDA x : x[2] # " " \/ t[x[1] - 1] # " ")
    IN  [i \in 1..Len(kept) |-> kept[i][2]]

\* strings.ToLower on the letters of the alphabet.
ToLowerChar(c) ==
    CASE c = "A" -> "a"
      [] c = "Z" -> "z"
      [] OTHER -> c

ToLower(s) == [i \in 1..Len(s) |-> ToLowerChar(s[i])]

\* url.Parse, first step (getScheme): the letters before the first other
\* character are the scheme when that character is a colon; a colon in
\* first place is the "missing protocol scheme" error; otherwise the URL
\* has no scheme.
getScheme(rawURL) ==
    LET stops == {i \in 1..Len(rawURL) :
                     rawURL[i] \notin (LowerChars \cup UpperChars)}
        k == IF stops = {} THEN 0
             ELSE CHOOSE i \in stops : \A j \in stops : i <= j
    IN  IF k = 0 \/ rawURL[IF k = 0 THEN 1 ELSE k] # ":"
        THEN [scheme |-> <<>>, rest |-> rawURL, err |-> FALSE]
        ELSE IF k = 1
        THEN [scheme |-> <<>>, rest |-> <<>>, err |-> TRUE]
        ELSE [scheme |-> SubSeq(rawURL, 1, k - 1),
              rest |-> SubSeq(rawURL, k + 1, Len(rawURL)),
              err |-> FALSE]

EnsureSchemeKeep(scheme) == scheme

\* normalizeURL, lines 159-162: ensure the scheme is set.
EnsureScheme(scheme) ==
    IF scheme = <<>> THEN <<"h", "t", "t", "p", "s">> ELSE scheme

\* URL.String(): a scheme that is not empty is written with a colon after
\* it; then come the other parts.
URLString(scheme, others) ==
    (IF scheme # <<>> THEN scheme \o <<":">> ELSE <<>>) \o others

\* normalizeURL, lines 138-167. url.Parse may reject what follows the
\* scheme (parseOk); what URL.String() writes for the other parts is left
\* open between the text after the scheme and nothing (keepRest).
normalizeURL(rawURL, parseOk, keepRest) ==
    LET trimmed == TrimSpace(rawURL)
        absolute == IF HasPrefix(trimmed, SchemeRelative)
                    THEN <<"h", "t", "t", "p", "s", ":">> \o trimmed
                    ELSE trimmed
        parsed == getScheme(absolute)
    IN  IF trimmed = <<>>
        THEN [url |-> <<>>, err |-> TRUE]
        ELSE IF /\ ~Contains(trimmed, SchemeSeparator)
                /\ ~HasPrefix(trimmed, SchemeRelative)
        THEN [url |-> <<>>, err |-> TRUE]
        ELSE IF parsed.err \/ ~parseOk
        THEN [url |-> <<>>, err |-> TRUE]
        ELSE [url |-> URLString(ToLower(EnsureScheme(parsed.scheme)),
                                IF keepRest THEN parsed.rest ELSE <<>>),
              err |-> FALSE]

\* What languagedetector.DetectLanguage and detectLanguage make of a text:
\* English, another language with enough English confidence, "unknown" (a
\* text shorter than MinTextLength bytes, or a failed detection), or the
\* error that ends the call.
LanguageOutcomes == {"en", "fr", "unknown", "not-english"}

\* The scores DetectSpam may return: the sum of the weights of the phrases
\* found.
SpamScores == 0..(SpamBlockThreshold + 1)

\* DetectSpam, line 241 of unnamed/part_010.
IsHighSpam(totalScore) == totalScore >= SpamBlockThreshold

\* The poorest and the richest page.
FewFeatures ==
    {[titleLen |-> 5, metaLen |-> 50, entities |-> 0,
      keywords |-> 3, internalLinks |-> 0, externalLinks |-> 0,
      isSecure |-> FALSE, loadTime |-> 3000],
     [titleLen |-> 6, metaLen |-> 51, entities |-> 1,
      keywords |-> 4, internalLinks |-> 1, externalLinks |-> 1,
      isSecure |-> TRUE, loadTime |-> 999]}

\* The values around each test of calculateQualityScore.
FeatureValues ==
    [titleLen |-> {5, 6, 149, 150},
     metaLen |-> {50, 51},
     entities |-> {0, 1},
     keywords |-> {3, 4},
     internalLinks |-> {0, 1},
     externalLinks |-> {0, 1},
     isSecure |-> BOOLEAN,
     loadTime |-> {999, 1000, 1999, 2000, 2999, 3000}]

\* What Enrich copies into the document besides the URL, the text and the
\* language: the lengths of the page's title and meta description, the
\* numbers of entities and keywords the NLP service returned and of the
\* page's links, the page's security flag and its load time in
\* milliseconds. Each is taken through the values around its test, the
\* others being those of the poorest or of the richest page.
AllFeatures ==
    UNION {{[b EXCEPT ![k] = v] : v \in FeatureValues[k]} :
              b \in FewFeatures, k \in DOMAIN FeatureValues}

\* calculateQualityScore, lines 98-151 of unnamed/part_010.
calculateQualityScore(doc) ==
    LET score ==
            (IF Len(doc.VisibleText) > 100 THEN 10 ELSE 0)
          + (IF doc.Title > 5 /\ doc.Title < 150 THEN 10 ELSE 0)
          + (IF doc.MetaDescription > 50 THEN 5 ELSE 0)
          + (IF doc.Entities >= 1 THEN 10 ELSE 0)
          + (IF doc.Keywords > 3 THEN 10 ELSE 0)
          + (IF doc.InternalLinks > 0 THEN 5 ELSE 0)
          + (IF doc.ExternalLinks > 0 THEN 5 ELSE 0)
          + (IF doc.Language = "en" THEN 10 ELSE 0)
          + (IF doc.IsSecure THEN 25 ELSE 0)
          + (IF doc.LoadTime < 1000 THEN 10
             ELSE IF doc.LoadTime < 2000 THEN 5
             ELSE IF doc.LoadTime < 3000 THEN 2
             ELSE 0)
    IN  IF score > 100 THEN 100 ELSE score

\* Enrich, lines 61-87 of unnamed/part_010: the document after the NLP
\* service answered for the page, before its quality score is computed.
Enriched(doc, page, f) ==
    [doc EXCEPT
        !.Entities = f.entities,
        !.Keywords = f.keywords,
        !.URL = page.URL,
        !.Title = f.titleLen,
        !.MetaDescription = f.metaLen,
        !.Language = page.Language,
        !.VisibleText = page.VisibleText,
        !.InternalLinks = f.internalLinks,
        !.ExternalLinks = f.externalLinks,
        !.IsSecure = f.isSecure,
        !.LoadTime = IF f.loadTime > 0 THEN f.loadTime ELSE @]

SpamPenaltyUnclamped(qualityScore, spamScore) ==
    IF spamScore > 0 THEN qualityScore - spamScore * 2 ELSE qualityScore

\* Process, lines 91-98: the quality score after the spam penalty.
SpamPenalty(qualityScore, spamScore) ==
    IF spamScore > 0
    THEN IF qualityScore > spamScore * 2
         THEN qualityScore - spamScore * 2
         ELSE 0
    ELSE qualityScore

ContinueAlways(failed, next) == next

\* Process: `if err != nil { return err }` after a stage.
Continue(failed, next) == IF failed THEN "returned" ELSE next

\* Variant: a failed NLP request is returned by Enrich as its error.
EnrichFailsOnError(nlpOk) == ~nlpOk

\* Enrich, lines 54-59 of unnamed/part_010: with an error of the batch
\* client Enrich logs, counts an NLP error and returns nil.
EnrichFails(nlpOk) == FALSE

\* Variant: every error of Process is counted as a duplicate.
IsDuplicateErrorAny(err) == TRUE

\* runWorker, line 79: err.Error() == "duplicate page detected".
IsDuplicateError(err) == err = "duplicate"

\* A Process call touches the deduplication store and nothing else outside
\* itself; the worker around it touches the duplicates counter.
ProcessOnly ==
    UNCHANGED <<qvars, cbvars, cvars, bpvars, ivars, wpc, wpage, wcount,
                pageText, textVerdict, presult, redisFailed, cancelled, mpc,
                idgen>>

\* runWorker, lines 71-72: Process is called with a page and the zero
\* document.
PCall(url, text) ==
    /\ ppc = "idle"
    /\ pcalls < MaxCalls
    /\ ProcessOnly
    /\ ppc' = "clean"
    /\ pcalls' = pcalls + 1
    /\ pageData' = [URL |-> url, VisibleText |-> text, Language |-> ""]
    /\ document' = ZeroDocument
    /\ perr' = "none"
    /\ trail' = <<>>
    /\ UNCHANGED <<sigs, duplicatesDetected>>

\* Process, lines 59-61, and cleanAndNormalize, lines 108-118:
\* doc.VisibleText takes the cleaned text and doc.URL what normalizeURL
\* returns, the empty string with an error.
PClean(parseOk, keepRest) ==
    /\ ppc = "clean"
    /\ ProcessOnly
    /\ LET n == normalizeURL(pageData.URL, parseOk, keepRest)
       IN  /\ document' = [document EXCEPT
                              !.VisibleText =
                                  basicHTMLCleanup(pageData.VisibleText),
                              !.URL = n.url]
           /\ perr' = IF n.err THEN "invalid-url" ELSE perr
           /\ ppc' = Continue(n.err, "dedup")
    /\ trail' = Append(trail, "clean")
    /\ UNCHANGED <<pcalls, pageData, sigs, duplicatesDetected>>

\* Process, lines 64-67: the signature of the page's visible text is
\* looked up; a Redis error is logged by IsDuplicate.
PDedup(redisUp) ==
    /\ ppc = "dedup"
    /\ ProcessOnly
    /\ LET dup == IsDuplicate(GenerateSignature(pageData.VisibleText),
                              redisUp)
       IN  /\ perr' = IF dup THEN "duplicate" ELSE perr
           /\ ppc' = Continue(dup, "store")
    /\ trail' = trail \o (IF redisUp THEN <<"dedup">>
                          ELSE <<"dedup", "redis-error">>)
    /\ UNCHANGED <<pcalls, pageData, document, sigs, duplicatesDetected>>

\* Process, line 70: StoreSignature (a Redis error is only logged).
PStore(redisUp) ==
    /\ ppc = "store"
    /\ ProcessOnly
    /\ sigs' = IF redisUp
               THEN sigs \cup {GenerateSignature(pageData.VisibleText)}
               ELSE sigs
    /\ ppc' = Continue(FALSE, "language")
    /\ trail' = Append(trail, "store")
    /\ UNCHANGED <<pcalls, pageData, document, perr, duplicatesDetected>>

\* Process, lines 73-75, detectLanguage and DetectLanguage: a text shorter
\* than MinTextLength is "unknown"; a page found not English counts as
\* non-English-skipped (language_detector.go:48) and ends the call.
PLanguage(outcome) ==
    /\ ppc = "language"
    /\ ProcessOnly
    /\ Len(pageData.VisibleText) < MinTextLength => outcome = "unknown"
    /\ LET failed == (outcome = "not-english")
       IN  /\ pageData' = [pageData EXCEPT
                              !.Language = IF failed THEN @ ELSE outcome]
           /\ perr' = IF failed THEN "not-english" ELSE perr
           /\ ppc' = Continue(failed, "spam")
           /\ trail' = trail \o (IF failed
                                 THEN <<"language", "non-english-skipped">>
                                 ELSE <<"language">>)
    /\ UNCHANGED <<pcalls, document, sigs, duplicatesDetected>>

\* Process, lines 78-82, and detectSpam: the score is stored in the
\* document; a high score counts as high-spam-skipped (line 222) and ends
\* the call, a score below the threshold is observed by the histogram. A
\* text without a word scores 0.
PSpam(score) ==
    /\ ppc = "spam"
    /\ ProcessOnly
    /\ TrimSpace(pageData.VisibleText) = <<>> => score = 0
    /\ document' = [document EXCEPT !.SpamScore = score]
    /\ perr' = IF IsHighSpam(score) THEN "high-spam" ELSE perr
    /\ ppc' = Continue(IsHighSpam(score), "enrich")
    /\ trail' = trail \o (IF IsHighSpam(score)
                          THEN <<"spam", "high-spam-skipped">>
                          ELSE <<"spam", "observe">>)
    /\ UNCHANGED <<pcalls, pageData, sigs, duplicatesDetected>>

\* Process, lines 85-87, and Enrich (unnamed/part_010, lines 34-95): the
\* empty text returns at once; otherwise the text is submitted to the batch
\* client. When that answers with an error (a failed request, a status
\* other than 2xx, a malformed answer, the rate limiter's or the caller's
\* deadline, an open circuit) the NLP error is counted and the document is
\* left as it is; when it answers without error the document takes the
\* entities, the keywords and the page's fields, the raw URL and the raw
\* text among them, and then its quality score.
PEnrich(nlpOk, f) ==
    /\ ppc = "enrich"
    /\ ProcessOnly
    /\ IF pageData.VisibleText = <<>>
       THEN /\ trail' = Append(trail, "enrich")
            /\ UNCHANGED <<document, perr>>
            /\ ppc' = Continue(FALSE, "quality")
       ELSE /\ trail' = trail \o (IF nlpOk THEN <<"enrich", "nlp">>
                                  ELSE <<"enrich", "nlp", "nlp-error">>)
            /\ document' =
                 IF nlpOk
                 THEN [Enriched(document, pageData, f) EXCEPT
                          !.QualityScore = calculateQualityScore(
                              Enriched(document, pageData, f))]
                 ELSE document
            /\ perr' = IF EnrichFails(nlpOk) THEN "nlp-error"
                       ELSE perr
            /\ ppc' = Continue(EnrichFails(nlpOk), "quality")
    /\ UNCHANGED <<pcalls, pageData, sigs, duplicatesDetected>>

\* Process, lines 91-103: the spam penalty, the pages-processed counter,
\* return nil.
PQuality ==
    /\ ppc = "quality"
    /\ ProcessOnly
    /\ document' = [document EXCEPT
                       !.QualityScore = SpamPenalty(@, document.SpamScore)]
    /\ trail' = trail \o <<"quality", "processed">>
    /\ perr' = "ok"
    /\ ppc' = "returned"
    /\ UNCHANGED <<pcalls, pageData, sigs, duplicatesDetected>>

\* runWorker, lines 73 and 86-89: Process returned nil and the document is
\* passed to AddDocumentToIndexerPayload; the iteration ends and its page
\* and document are gone.
PAdd ==
    /\ ppc = "returned"
    /\ perr = "ok"
    /\ ProcessOnly
    /\ ppc' = "idle"
    /\ pageData' = NoPage
    /\ document' = ZeroDocument
    /\ perr' = "none"
    /\ trail' = <<>>
    /\ UNCHANGED <<pcalls, sigs, duplicatesDetected>>

\* runWorker, lines 73-81: Process returned an error; it is logged, a
\* duplicate is counted, and the page is dropped; the iteration ends.
PDrop ==
    /\ ppc = "returned"
    /\ perr # "ok"
    /\ ProcessOnly
    /\ duplicatesDetected' = IF IsDuplicateError(perr)
                             THEN duplicatesDetected + 1
                             ELSE duplicatesDetected
    /\ ppc' = "idle"
    /\ pageData' = NoPage
    /\ document' = ZeroDocument
    /\ perr' = "none"
    /\ trail' = <<>>
    /\ UNCHANGED <<pcalls, sigs>>

\* ---------------------------------------------------------- specifications
Init ==
    /\ QueueInit
    /\ BreakerInit
    /\ BatchInit
    /\ IndexerInit
    /\ PipelineInit
    /\ ProcessInit
    /\ DocIDInit

\* Any task may call any operation at any time.
QueueNext ==
    \E p \in Procs :
        \/ QCallInsert(p)
        \/ QCallRemove(p)
        \/ QCallClose(p)
        \/ QStep(p)

SpecQueue == Init /\ [][QueueNext]_vars

\* The queue with its observers: besides Insert, Remove and Close, any task
\* may call Length or IsEmpty (the health check's QueueDepth) at any time.
QueueObservedNext ==
    \/ QueueNext
    \/ \E p \in Procs : QCallObserve(p, "Length")
    \/ \E p \in Procs : QCallObserve(p, "IsEmpty")
    \/ \E p \in Procs : QObserve(p)

SpecQueueObserved == Init /\ [][QueueObservedNext]_vars

\* One producer (task 1), one consumer (task 2); Close may come from anyone.
FifoNext ==
    \/ QCallInsert(1)
    \/ QCallRemove(2)
    \/ \E p \in Procs : QCallClose(p)
    \/ \E p \in Procs : QStep(p)

SpecFifo == Init /\ [][FifoNext]_vars

\* Any number of tasks call Execute concurrently while the clock runs.
SpecBreaker == Init /\ [][BreakerNext]_vars

\* The batch loop, the callers of Process and Stop. The loop is the only
\* caller of this breaker and never calls Execute on an open circuit
\* (CheckCircuit answers first), so the clock is left out here.
SpecBatch == Init /\ [][BatchNext]_vars

\* The same batch client while the wall clock runs, so that the breaker's
\* reset timeout can elapse between two batches.
BatchClockNext ==
    \/ BatchNext
    \/ Tick

SpecBatchClock == Init /\ [][BatchClockNext]_vars

\* The bulk indexer alone: any task adds documents while the flush loop and
\* the request tasks run, and Stop may be called at any time.
SpecIndexer == Init /\ [][IndexerNext]_vars

\* The worker pool of the running service: pages are ingested and the
\* workers take them through Process and into the indexer's buffer. The
\* flush loop is left out: it reads nothing the workers write but the
\* buffer, and the workers read nothing it writes but the buffer's length.
SpecWorkers == Init /\ [][ServiceNext]_vars

\* The whole service from start to shutdown: pages are ingested, the workers
\* process them and feed the bulk indexer, whose flush loop and request
\* tasks run, and a signal starts the shutdown sequence. The
\* backend is healthy here (every POST is answered 2xx at once): the retries
\* of a request task, explored in SpecIndexer, only delay the moment its
\* wg.Done runs, which nothing but Stop's wg.Wait reads.
SpecPipeline == Init /\ [][PipelineNext]_vars

\* The running bulk indexer, from NewBulkIndexer until Stop is called: tasks
\* add documents while the flush loop runs. The goroutines are scheduled:
\* a caller that has appended goes on to its threshold test and send, and
\* the loop takes a pending signal and carries a flush through. Nothing is
\* assumed of the ticker, which may fire at any time or never.
IndexerRunNext ==
    \/ \E w \in Procs : CallerAdd(w)
    \/ \E w \in Procs : AddSignal(w)
    \/ FlushSignal
    \/ FlushTicker
    \/ FlushSwap
    \/ FlushSpawn

SpecIndexerFair ==
    /\ Init
    /\ [][IndexerRunNext]_vars
    /\ \A w \in Procs : WF_vars(AddSignal(w))
    /\ WF_vars(FlushSignal)
    /\ WF_vars(FlushSwap)
    /\ WF_vars(FlushSpawn)

\* One step of worker w past the removal of a page: the stages of Process,
\* the append, the signal, or the return on a done context.
WorkerStep(w) ==
    \/ WorkerExit(w)
    \/ \E urlOk, redisUp \in BOOLEAN : WorkerCheck(w, urlOk, redisUp)
    \/ \E redisUp \in BOOLEAN, verdict \in {"ok", "non-english", "high-spam"} :
            WorkerStore(w, redisUp, verdict)
    \/ WorkerAdd(w)
    \/ AddSignal(w)

\* The worker pool from start to Wait's return, its goroutines scheduled:
\* pages are ingested, the workers handle them, a signal cancels the root
\* context and Administrator.Stop closes the queue and waits for the
\* workers. A worker that can take a step eventually takes one: Process
\* returns (every call it makes carries a timeout),
\* AddDocumentToIndexerPayload does not block, and the worker's select has a
\* default case. Nothing is assumed of main or of the ingest handler. The
\* flush loop is left out, as in SpecWorkers.
WorkerPoolNext ==
    \/ \E text \in Texts : IngestPage(text, MaxShutdownPages)
    \/ WorkersNext
    \/ \E w \in Procs : WorkerExit(w)
    \/ MainSignal
    \/ AdminClose
    \/ AdminWait

SpecWorkerPoolFair ==
    /\ Init
    /\ [][WorkerPoolNext]_vars
    /\ \A w \in Procs : WF_vars(WorkerStep(w))

\* The whole service with the NLP batch client's loop running beside it (it
\* was started by NewBatchProcessor when the processor was built): the loop
\* wakes on its ticker and finds no batch.
ShutdownNext ==
    \/ PipelineNext
    \/ LoopTicker
    \/ SwapBatch

SpecShutdown == Init /\ [][ShutdownNext]_vars

\* generateDocID alone: one call on any pair of strings of which one is
\* long and the other short.
DocIDNext ==
    \/ /\ idgen.pc = "idle"
       /\ \E u \in LongStrings, c \in ShortStrings : DocIDCall(u, c)
    \/ /\ idgen.pc = "idle"
       /\ \E u \in ShortStrings, c \in LongStrings : DocIDCall(u, c)
    \/ DocIDReturn

SpecDocID == Init /\ [][DocIDNext]_vars

\* One task calling Process on pages whose URLs are drawn from urls and
\* whose other fields are drawn from features.
ProcessNext(urls, texts, features) ==
    \/ /\ ppc = "idle"
       /\ \E url \in urls, text \in texts : PCall(url, text)
    \/ \E parseOk, keepRest \in BOOLEAN : PClean(parseOk, keepRest)
    \/ \E redisUp \in BOOLEAN : PDedup(redisUp)
    \/ \E redisUp \in BOOLEAN : PStore(redisUp)
    \/ \E outcome \in LanguageOutcomes : PLanguage(outcome)
    \/ \E score \in SpamScores : PSpam(score)
    \/ /\ ppc = "enrich"
       /\ \E f \in features : PEnrich(TRUE, f)
    \/ PEnrich(FALSE, CHOOSE f \in features : TRUE)
    \/ PQuality
    \/ PAdd
    \/ PDrop

\* Process on every page URL.
SpecProcess == Init /\ [][ProcessNext(PageURLs, FewTexts, FewFeatures)]_vars

\* Process on every visible text of spaces and letters.
SpecText == Init /\ [][ProcessNext(FewURLs, PageTexts, FewFeatures)]_vars

\* Process on the values of the fields the quality score reads.
SpecQuality == Init /\ [][ProcessNext(FewURLs, LongTexts, AllFeatures)]_vars

\* ------------------------------------------------------ queue properties
\* The calls that have decided their result and still hold the mutex.
QDeciding(p, op) == qpc[p] = "unlock" /\ qop[p] = op

\* C1: in every reachable state 0 <= len(q) <= Capacity, and an Insert that
\* succeeds found the queue open with fewer than Capacity items and added
\* exactly its own item at the tail.
C1_LengthWithinCapacity ==
    /\ 0 <= Len(q)
    /\ Len(q) <= Capacity
    /\ \A p \in Procs :
         (QDeciding(p, "Insert") /\ qres[p] = "ok") =>
             /\ ~closed
             /\ Len(qpre[p]) < Capacity
             /\ q = Append(qpre[p], qarg[p])

\* C1 witness: an Insert has just succeeded and filled the queue while
\* another task is waiting for the mutex.
C1_Witness ==
    \E p, r \in Procs :
        /\ p # r
        /\ QDeciding(p, "Insert") /\ qres[p] = "ok"
        /\ Len(q) = Capacity
        /\ qpc[r] = "lock"

\* C2: once a Close has returned, every Insert begun later fails with the
\* closed error (full or not) and leaves the buffer as it was; Close itself
\* leaves the buffer as it was; a Remove begun later still returns the oldest
\* buffered item (or the empty error when nothing is buffered); a second
\* Close finds the queue closed and leaves it closed.
C2_ClosedRejectsInsertsKeepsItems ==
    /\ closeDone => closed
    /\ \A p \in Procs :
         /\ (qlate[p] /\ qop[p] = "Insert") => qpc[p] # "ins_append"
         /\ (qlate[p] /\ QDeciding(p, "Insert")) =>
                (qres[p] = "closed" /\ q = qpre[p])
         /\ QDeciding(p, "Close") => (closed /\ q = qpre[p])
         /\ (qlate[p] /\ QDeciding(p, "Remove")) =>
                IF qpre[p] = <<>>
                THEN qres[p] = "empty" /\ q = <<>>
                ELSE /\ qres[p] = "ok"
                     /\ qarg[p] = Head(qpre[p])
                     /\ q = Tail(qpre[p])

\* C2 witness: after a Close has returned, an Insert on the closed and full
\* queue has been answered with the closed error.
C2_Witness ==
    \E p \in Procs :
        /\ qlate[p]
        /\ QDeciding(p, "Insert")
        /\ qres[p] = "closed"
        /\ Len(q) = Capacity

\* C3: a failed call changes nothing: Insert on an open queue holding
\* Capacity items returns the full error, Remove on an empty queue returns
\* the empty error with the zero-value item, and in every failing call the
\* buffer after the call equals the buffer before it.
C3_FailedCallChangesNothing ==
    \A p \in Procs :
        /\ (QDeciding(p, "Insert") /\ ~closed /\ Len(qpre[p]) = Capacity) =>
               qres[p] = "full"
        /\ (QDeciding(p, "Remove") /\ qpre[p] = <<>>) =>
               (qres[p] = "empty" /\ qarg[p] = NoItem)
        /\ (qpc[p] = "unlock" /\ qres[p] \in {"full", "closed", "empty"}) =>
               q = qpre[p]

\* C3 witness: an Insert on an open, full queue has been answered with the
\* full error.
C3_Witness ==
    \E p \in Procs :
        /\ QDeciding(p, "Insert")
        /\ qres[p] = "full"
        /\ ~closed
        /\ Len(q) = Capacity

\* C4: with one producer and one consumer, the items returned by successful
\* Removes are, in order, a prefix of the items accepted by successful
\* Inserts.
C4_FifoOrder == IsPrefix(removed, accepted)

\* C4 witness: the consumer has been handed at least two items while the
\* producer has had a third accepted.
C4_Witness ==
    /\ Len(removed) >= 2
    /\ Len(accepted) > Len(removed)

\* C5: under concurrent Removes no item is returned twice, every returned
\* item was accepted by an Insert, and once the queue is empty with no
\* Remove still holding an item every accepted item has been returned
\* exactly once.
C5_EachItemRemovedOnce ==
    /\ NoDup(removed)
    /\ Range(removed) \subseteq Range(accepted)
    /\ \A p \in Procs : qres[p] # "panic"
    /\ (/\ q = <<>>
        /\ \A p \in Procs : ~(qop[p] = "Remove" /\ qarg[p] # NoItem))
       => (Len(removed) = Len(accepted) /\ Range(removed) = Range(accepted))

\* C5 witness: one Remove is handing out the second item while another
\* Remove call waits for the mutex, and an item has already been returned.
C5_Witness ==
    \E p, r \in Procs :
        /\ p # r
        /\ QDeciding(p, "Remove") /\ qres[p] = "ok"
        /\ qpc[r] = "lock" /\ qop[r] = "Remove"
        /\ Len(removed) >= 1

\* ---------------------------------------------------- breaker properties
\* A step in which caller c calls Execute (its first locked section): it
\* enters the wrapped function or is handed a result at once.
EnterStep(c) ==
    /\ cpc[c] = "idle"
    /\ <<cpc[c], cres[c]>>' # <<cpc[c], cres[c]>>

\* A step in which the wrapped function of caller c returns.
ExitStep(c) == cpc[c] = "running" /\ cpc'[c] = "idle"

\* C8: counted from closed with failure count 0, once FailureThreshold
\* consecutive calls have failed the state is open; and every Execute call
\* made on the open circuit while at most ResetTimeout has elapsed since it
\* opened returns CircuitOpen, does not run the wrapped function and leaves
\* the circuit open.
C8_OpensAfterFThenRejects ==
    /\ streak >= FailureThreshold => state = "open"
    /\ [][/\ streak' >= FailureThreshold => state' = "open"
          /\ \A c \in Callers :
               (/\ EnterStep(c)
                /\ state = "open"
                /\ now - openedAt <= ResetTimeout)
               => (/\ cpc'[c] = "idle"
                   /\ cres'[c] = "CircuitOpen"
                   /\ state' = "open")]_vars

\* C8 witness: the circuit opened on the F-th consecutive failure and a call
\* has been answered CircuitOpen exactly ResetTimeout after it opened.
C8_Witness ==
    /\ state = "open"
    /\ streak = FailureThreshold
    /\ \E c \in Callers : cres[c] = "CircuitOpen"
    /\ rejectedAt = openedAt + ResetTimeout

\* C9: at most one call admitted in half-open state is inside its wrapped
\* function at any time.
C9_SingleProbeInFlight ==
    Cardinality({c \in Callers :
                   cpc[c] = "running" /\ cadm[c] \in {"probe", "half-open"}})
        <= 1

\* C10: when the call that was admitted as the probe returns, success
\* leaves the state closed with failure count 0, and failure leaves the
\* state open with the failure time recorded as the current time.
C10_ProbeOutcomeDecides ==
    [][\A c \in Callers :
          (ExitStep(c) /\ cadm[c] = "probe") =>
              IF cres'[c] = "ok"
              THEN state' = "closed" /\ failureCount' = 0
              ELSE state' = "open" /\ lastFailure' = now]_vars

\* ------------------------------------------------- batch client properties
\* The items that Process has appended to a batch.
Submitted == {i \in BatchItems : ipc[i] \in {"waiting", "received", "cancelled"}}

\* C6: the batch loop sends to each item's one-slot mailbox at most once,
\* whatever path processBatch takes, so whenever the loop is about to send
\* the mailbox is empty and the send does not wait, also when the caller of
\* Process has already returned on its cancelled context.
C6_OneSendNeverBlocks ==
    /\ \A i \in BatchItems : writes[i] <= 1
    /\ \A i \in BatchItems : writes[i] = 1 => i \in Submitted
    /\ (bpc = "deliver" /\ bidx <= Len(batch)) =>
           (mailbox[batch[bidx]] = "none" /\ writes[batch[bidx]] = 0)

\* C6 witness: the loop has answered an item whose caller had already left
\* on its cancelled context, and has gone on to answer the next item.
C6_Witness ==
    /\ bpc = "deliver"
    /\ bidx = 2
    /\ ipc[batch[1]] = "cancelled"
    /\ writes[batch[1]] = 1
    /\ mailbox[batch[1]] # "none"

\* C7: every item appended to a batch gets its one result; in particular,
\* once the batch loop has exited after Stop, no appended item is left
\* without a result.
C7_EveryItemAnswered ==
    bpc = "exited" => \A i \in Submitted : writes[i] = 1

\* ------------------------------------- NLP batch client and the reset timeout
\* C11: in the batch loop, once the breaker is open and its reset timeout
\* has elapsed, the next non-empty batch is not answered with CircuitOpen:
\* the loop's check of the breaker lets the batch go on towards the POST.
C11_ProbeAfterResetTimeout ==
    [][(/\ bpc = "state"
        /\ batch # <<>>
        /\ state = "open"
        /\ ResetElapsed(now, lastFailure))
       => ~(bpc' = "deliver" /\ bkind' = "circuit-open")]_vars

\* ------------------------------------------------- pipeline properties
\* The results with which Process rejects a page.
Rejections == {"invalid-url", "duplicate", "non-english", "high-spam"}

PagesWithText(x) == {p \in 1..Len(pageText) : pageText[p] = x}

\* Page p has been through Process and its worker has let go of it.
Handled(p) ==
    /\ presult[p] # "none"
    /\ \A w \in Procs : wpage[w] # p

\* C13: when exactly two pages carry the same visible text (a text that
\* passes language and spam detection, behind valid URLs, Redis answering
\* every command) and the workers have handled both, exactly one of them
\* was passed to AddDocumentToIndexerPayload, the other failed as duplicate
\* and the duplicates counter went up by exactly one.
C13_OneOfTwoSameTextPagesIndexed ==
    \A x \in Texts :
        (/\ Cardinality(PagesWithText(x)) = 2
         /\ \A p \in PagesWithText(x) :
                Handled(p) /\ presult[p] # "invalid-url"
         /\ textVerdict[x] = "ok"
         /\ ~redisFailed)
        => /\ Cardinality(PagesWithText(x) \cap Range(added)) = 1
           /\ Cardinality({p \in PagesWithText(x) :
                              presult[p] = "duplicate"}) = 1
           /\ duplicatesDetected
                = Cardinality({p \in 1..Len(presult) :
                                 presult[p] = "duplicate"})

C15_FirstSuccessEndsRetries ==
    /\ [](\A t \in 1..Len(tasks) :
            LET task == tasks[t]
            IN  task.sawOk
                  => /\ task.status = "ok"
                     /\ task.posts = task.fails + 1
                     /\ task.posts <= MaxRetries + 1
                     /\ task.counted = 0)
    /\ [][\A t \in 1..Len(tasks) :
            tasks[t].sawOk => tasks'[t] = tasks[t]]_vars

\* The backend answered 500, 500 and then 2xx to the same payload: three
\* POSTs, the third one successful, no bulk failure counted.
C15_Witness ==
    /\ Len(tasks) = 1
    /\ tasks[1].sawOk
    /\ tasks[1].status = "ok"
    /\ tasks[1].fails = 2
    /\ tasks[1].posts = 3
    /\ bulkFailures = 0

\* The documents of seq appear in whole, contiguously and in the same order
\* inside the sequence of all added documents.
IsSegment(seq, whole) ==
    \E k \in 0..(Len(whole) - Len(seq)) :
        \A i \in 1..Len(seq) : seq[i] = whole[k + i]

\* C16: the payload built by a flush of N documents has exactly 2 x N
\* lines: for the i-th document, in the order of the AddDocument calls,
\* line 2i - 1 is its meta line (index name and _id) and line 2i is its
\* JSON line.
C16_TwoLinesPerDocument ==
    \A t \in 1..Len(tasks) :
        LET task == tasks[t]
        IN  /\ IsSegment(task.docs, added)
            /\ Len(task.lines) = 2 * Len(task.docs)
            /\ \A i \in 1..Len(task.docs) :
                 /\ task.lines[2 * i - 1] = MetaLine(task.docs[i])
                 /\ task.lines[2 * i] = DocLine(task.docs[i])

\* The request tasks whose payload carries the JSON line of document d.
PayloadsWith(d) ==
    {t \in 1..Len(tasks) :
        \E i \in 1..Len(tasks[t].lines) :
            /\ tasks[t].lines[i][1] = "doc"
            /\ tasks[t].lines[i][2] = d}

\* C17: whatever the interleaving of AddDocument calls and flushes, no
\* document is carried by two payloads, and once the flush loop has exited
\* every document added before the loop took its done case is carried by
\* exactly one payload.
C17_EveryDocumentInOnePayload ==
    /\ \A d \in Range(added) : Cardinality(PayloadsWith(d)) <= 1
    /\ fpc = "exited" =>
          \A d \in Range(added) \ lateAdds :
              Cardinality(PayloadsWith(d)) = 1

\* C18: once Stop has returned, the final flush has taken everything that
\* was buffered (nothing is left in the buffer or on its way into a
\* payload) and every request task, the final flush's included, has
\* finished.
C18_StopReturnsAfterFinalFlush ==
    mpc = "stopped" =>
        /\ buffer = <<>>
        /\ docsToIndex = <<>>
        /\ \A t \in 1..Len(tasks) : tasks[t].status # "running"

\* ------------------------------------------------------ shutdown properties
\* C19: when Administrator.Stop has returned, every page the queue accepted
\* has been removed and been through Process, so the queue is empty.
C19_ShutdownProcessesAccepted ==
    mpc = "stopped" =>
        /\ q = <<>>
        /\ \A p \in Range(accepted) :
             /\ p \in Range(removed)
             /\ presult[p] # "none"

\* C20: the indexer's done channel is closed only after the queue has been
\* closed and every worker has returned; no document is passed to
\* AddDocumentToIndexerPayload once it is closed; so when the flush loop
\* has exited no document is left in the buffer.
C20_IndexerStoppedAfterWorkers ==
    /\ [](idone => closed /\ \A w \in Procs : wpc[w] = "exited")
    /\ [][idone => added' = added /\ Len(buffer') <= Len(buffer)]_vars
    /\ [](fpc = "exited" => buffer = <<>> /\ lateAdds = {})

\* The shutdown ran to the end after a worker had produced a document, and
\* the final flush carried a document out of the buffer.
C20_Witness ==
    /\ mpc = "stopped"
    /\ fpc = "exited"
    /\ added # <<>>
    /\ \E t \in 1..Len(tasks) : tasks[t].final /\ tasks[t].docs # <<>>

\* --------------------------------------------- more breaker properties
\* C26: when a call admitted on the closed circuit returns successfully
\* while the circuit is closed, the failure count is 0 afterwards (so that
\* failures separated by successes never add up to the threshold).
C26_SuccessInClosedResetsCount ==
    [][\A c \in Callers :
          (/\ ExitStep(c)
           /\ cadm[c] = "closed"
           /\ state = "closed"
           /\ cres'[c] = "ok")
          => (failureCount' = 0 /\ state' = "closed")]_vars

\* C27: an Execute call made on the open circuit more than ResetTimeout
\* after the moment the circuit opened is admitted: it moves the state to
\* half-open and enters the wrapped function, also when calls admitted
\* before the circuit opened have failed in the meantime.
C27_AdmittedAfterTimeoutSinceOpened ==
    [][\A c \in Callers :
          (/\ EnterStep(c)
           /\ state = "open"
           /\ now - openedAt > ResetTimeout)
          => (/\ cpc'[c] = "running"
              /\ state' = "half-open")]_vars

\* ------------------------------------------------ more queue properties
\* The positions at which a task is about to write the buffer.
QWriting(p) == qpc[p] \in {"ins_append", "rem_slice"}

\* C28: every write of the buffer is made by the holder of the mutex, and no
\* task is about to read the buffer (Length, IsEmpty) at a moment when
\* another task is about to write it.
C28_NoReadDuringWrite ==
    \A p \in Procs :
        /\ QWriting(p) => mu = p
        /\ qpc[p] = "read" => \A r \in Procs \ {p} : ~QWriting(r)

\* --------------------------------------- more batch client properties
\* A step in which the batch loop sends one answer.
SendStep == bpc = "deliver" /\ bidx' = bidx + 1

\* C29: when the response carries a results list of the batch's length, the
\* entry at index i is answered to the item at index i of the batch and to
\* no other item; when the list is missing or of another length, every send
\* carries the format error, and when processBatch is done every item of
\* the batch has been sent it: no item is sent a success result.
C29_ResultsPositional ==
    /\ [][SendStep =>
            /\ bidx <= Len(batch)
            /\ writes' = [writes EXCEPT ![batch[bidx]] = @ + 1]
            /\ \A i \in BatchItems \ {batch[bidx]} : mailbox'[i] = mailbox[i]
            /\ bkind = "result" =>
                   mailbox'[batch[bidx]] \in {"result", "invalid-result"}
            /\ bkind = "format-error" =>
                   mailbox'[batch[bidx]] = "format-error"]_vars
    /\ [](bpc = "deliver" /\ bkind \in {"result", "format-error"} =>
            /\ \A i \in 1..Len(batch) :
                 writes[batch[i]] = (IF i < bidx THEN 1 ELSE 0)
            /\ bkind = "format-error" =>
                 \A i \in 1..Len(batch) : mailbox[batch[i]] # "result")

\* C29 witness: a full batch of two items has been answered entry by entry
\* from a results list of length two.
C29_Witness ==
    /\ bpc = "deliver"
    /\ bkind = "result"
    /\ Len(batch) = BatchSize
    /\ bidx > Len(batch)
    /\ \A i \in 1..Len(batch) : writes[batch[i]] = 1

\* ------------------------------------------- more shutdown properties
\* C21: once the shutdown sequence has completed (Administrator.Stop has
\* returned), BatchProcessor.Stop has been invoked and the NLP batch loop
\* has exited.
C21_NlpClientStoppedLast ==
    mpc = "stopped" => (done /\ bpc = "exited")

\* ------------------------------------------ more bulk indexer properties
\* C25: whenever the buffer holds at least BulkThreshold documents (an
\* AddDocument call has brought its length to the threshold), every document
\* in it is eventually taken by a flush, whether or not the ticker ever
\* fires, also when the signal was already pending or the loop was busy.
C25_ThresholdAddFlushed ==
    \A d \in 1..MaxDocs :
        (d \in Range(buffer) /\ Len(buffer) >= BulkThreshold)
            ~> (d \notin Range(buffer))

\* C25 witness: a caller has appended a document that brought the buffer to
\* the threshold and is about to signal, while a signal is already pending
\* and the loop is busy building the payload of the previous flush.
C25_Witness ==
    /\ flushChannel = 1
    /\ fpc = "build"
    /\ Len(buffer) >= BulkThreshold
    /\ \E w \in Procs : wpc[w] = "signal" /\ wcount[w] >= BulkThreshold

\* C24: the id returned by generateDocID is sanitizeID of the canonical URL
\* when that is nonempty after trimming and sanitizeID of the URL otherwise;
\* whatever the input, the id holds only characters of [A-Za-z0-9_.-] and
\* is at most 100 characters long.
SafeIDChars ==
    {"a", "h", "p", "s", "t", "A", "Z", "9", "_", ".", "-"}

C24_DocIDSanitized ==
    idgen.pc = "returned" =>
        /\ idgen.docID =
              IF \E i \in 1..Len(idgen.canonicalStr) :
                     idgen.canonicalStr[i] # " "
              THEN sanitizeID(idgen.canonicalStr)
              ELSE sanitizeID(idgen.urlStr)
        /\ \A i \in 1..Len(idgen.docID) : idgen.docID[i] \in SafeIDChars
        /\ Len(idgen.docID) <= 100

\* C24 witness: a blank, nonempty canonical URL, and a URL holding a
\* character that is dropped and more safe characters than an id may have.
C24_Witness ==
    /\ idgen.pc = "returned"
    /\ idgen.canonicalStr = <<" ">>
    /\ "%" \in Range(idgen.urlStr)
    /\ Len(KeepSafe(idgen.urlStr)) > MaxIDLength
    /\ Len(idgen.docID) = MaxIDLength

\* C22: the quality score of a document is an integer between 0 and 100 at
\* every point of Process, and so in every document passed to AddDocument:
\* the additive score never exceeds 100 and the spam penalty of twice the
\* spam score never takes it below 0.
C22_QualityScoreInRange ==
    /\ document.QualityScore >= 0
    /\ document.QualityScore <= 100

\* C22 witness: a document about to be passed to AddDocument that the NLP
\* service enriched and scored, with a positive spam score and a penalty
\* that left nothing of its quality score.
C22_Witness ==
    /\ ppc = "returned"
    /\ perr = "ok"
    /\ document.URL = pageData.URL
    /\ document.SpamScore > 0
    /\ document.QualityScore = 0

\* C23: a page URL that is empty, blank, or has neither a scheme separator
\* nor a leading // makes Process fail in the clean stage with no other
\* stage run; once the clean stage has succeeded the document URL is never
\* empty, so every document passed to AddDocument has a nonempty URL.
RejectedURL(url) ==
    \/ \A i \in 1..Len(url) : url[i] = " "
    \/ /\ ~Contains(TrimSpace(url), <<":", "/", "/">>)
       /\ ~HasPrefix(TrimSpace(url), <<"/", "/">>)

C23_DocumentURLNonEmpty ==
    /\ (trail # <<>> /\ RejectedURL(pageData.URL)) =>
           /\ perr = "invalid-url"
           /\ trail = <<"clean">>
    /\ (trail # <<>> /\ perr # "invalid-url") => document.URL # <<>>
    /\ (ppc = "returned" /\ perr = "ok") => Len(document.URL) > 0

\* C23 witness: a document about to be passed to AddDocument whose page
\* URL carries no scheme and does not begin with //, and whose URL is the
\* one the clean stage gave it.
C23_Witness ==
    /\ ppc = "returned"
    /\ perr = "ok"
    /\ getScheme(TrimSpace(pageData.URL)).scheme = <<>>
    /\ ~HasPrefix(TrimSpace(pageData.URL), SchemeRelative)
    /\ document.URL # pageData.URL

\* C30: Process runs its stages in the order clean, dedup, language, spam,
\* enrich, quality and returns at the first stage that fails: the failing
\* stage is the last stage in the call's trail, which then holds no spam
\* observation, no NLP submission and no pages-processed increment, and
\* nothing is added to it or to the stored signatures afterwards; the
\* stored signatures change only right after the dedup stage of a running
\* call has found its page not duplicate, by that page's signature.
StageOrder == <<"clean", "dedup", "language", "spam", "enrich", "quality">>

StagesRun == SelectSeq(trail, LAMBDA e : e \in Range(StageOrder))

ProcessFailed == perr \notin {"none", "ok"}

FailedStage ==
    CASE perr = "invalid-url" -> "clean"
      [] perr = "duplicate" -> "dedup"
      [] perr = "not-english" -> "language"
      [] perr = "high-spam" -> "spam"
      [] OTHER -> "none"

C30_StagesInOrderUntilFailure ==
    /\ [](IsPrefix(StagesRun, StageOrder))
    /\ [](ProcessFailed =>
            /\ trail # <<>>
            /\ StagesRun # <<>>
            /\ StagesRun[Len(StagesRun)] = FailedStage
            /\ Range(trail) \cap {"observe", "nlp", "processed"} = {}
            /\ (perr # "high-spam" => "spam" \notin Range(trail)))
    /\ [][ProcessFailed =>
            /\ trail' = trail \/ trail' = <<>>
            /\ sigs' = sigs]_vars
    /\ [][sigs' # sigs =>
            /\ perr = "none"
            /\ StagesRun # <<>>
            /\ StagesRun[Len(StagesRun)] = "dedup"
            /\ sigs' = sigs \cup {GenerateSignature(pageData.VisibleText)}]_vars

\* C30 witness: a call that failed in the spam stage after its signature
\* was stored.
C30_Witness ==
    /\ ppc = "returned"
    /\ perr = "high-spam"
    /\ trail = <<"clean", "dedup", "store", "language", "spam",
                 "high-spam-skipped">>
    /\ GenerateSignature(pageData.VisibleText) \in sigs

\* C40: a flush that finds the buffer empty returns at once: it spawns no
\* request task and counts no bulk flush. Every request task carries at
\* least one document and a payload that is not empty, and every counted
\* flush has its task or is about to spawn it.
C40_EmptyFlushSendsNothing ==
    /\ [][(fpc = "flush" /\ buffer = <<>> /\ fpc' # fpc) =>
            /\ fpc' = AfterFlush
            /\ Len(tasks') = Len(tasks)
            /\ bulkFlushes' = bulkFlushes
            /\ iwg' <= iwg]_vars
    /\ [](\A t \in 1..Len(tasks) :
            /\ tasks[t].docs # <<>>
            /\ tasks[t].lines # <<>>)
    /\ [](bulkFlushes = Len(tasks) + (IF fpc = "build" THEN 1 ELSE 0))

\* C40 witness: the loop has left after a final flush that found the buffer
\* empty, no document having ever been added.
C40_Witness ==
    /\ fpc = "exited"
    /\ added = <<>>
    /\ tasks = <<>>
    /\ bulkFlushes = 0

\* C39: every batch the loop takes from bp.currentBatch, and so every batch
\* POSTed to the NLP service, holds between 1 and BatchSize items.
C39_BatchWithinSize ==
    /\ Len(batch) <= BatchSize
    /\ bpc \in {"state", "rate", "marshal", "execute"} => Len(batch) >= 1

C35_WorkersExitOnlyOnCancel ==
    /\ [][\A w \in Procs :
            (wpc[w] # "exited" /\ wpc'[w] = "exited")
                => (cancelled /\ wpc[w] = "select")]_vars
    /\ [][\A w \in Procs :
            (cancelled /\ wpc[w] = "select" /\ wpc'[w] # wpc[w])
                => wpc'[w] = "exited"]_vars
    /\ [][(mpc = "wait" /\ mpc' # "wait") => (cancelled /\ WorkersDone)]_vars
    /\ cancelled ~> WorkersDone

\* Every worker has returned and Wait has returned, after a page failed in
\* Process and the queue was closed.
C35_Witness ==
    /\ WorkersDone
    /\ mpc = "indexer-stop"
    /\ closed
    /\ \E p \in 1..Len(presult) : presult[p] \notin {"none", "ok"}

\* The number of times page p occurs in the history s.
TimesIn(s, p) == Cardinality({i \in 1..Len(s) : s[i] = p})

\* C36: every page a worker removed from the queue is removed once, gets
\* one result from Process that never changes afterwards, and is appended
\* to the indexer's buffer exactly once if that result is success and never
\* otherwise; a page still in a worker's hands is held by one worker that
\* has not returned, and a cancelled context does not make that worker
\* return before the page is finished.
C36_RemovedPageHandledOnce ==
    /\ [][\A p \in 1..Len(presult) :
            presult[p] # "none" => presult'[p] = presult[p]]_vars
    /\ [][\A w \in Procs :
            (cancelled /\ wpc[w] \in {"process", "store", "add", "signal"})
                => wpc'[w] # "exited"]_vars
    /\ [](\A p \in Range(removed) :
            LET holders == {w \in Procs : wpage[w] = p}
            IN  /\ TimesIn(removed, p) = 1
                /\ IF holders = {}
                   THEN /\ presult[p] # "none"
                        /\ TimesIn(added, p) =
                               (IF presult[p] = "ok" THEN 1 ELSE 0)
                   ELSE /\ Cardinality(holders) = 1
                        /\ \A w \in holders :
                             /\ wpc[w] \in {"process", "store", "add",
                                            "signal"}
                             /\ wpc[w] \in {"process", "store"}
                                    => presult[p] = "none"
                             /\ wpc[w] \in {"add", "signal"}
                                    => presult[p] = "ok"
                             /\ TimesIn(added, p) =
                                    (IF wpc[w] = "signal" THEN 1 ELSE 0))

\* The context is cancelled, every worker has returned, and the page that
\* was removed has been processed with success and added once.
C36_Witness ==
    /\ cancelled
    /\ WorkersDone
    /\ removed = <<1>>
    /\ presult[1] = "ok"
    /\ added = <<1>>

\* The call has returned nil: its document is the one runWorker passes to
\* AddDocumentToIndexerPayload.
AtAddDocument == ppc = "returned" /\ perr = "ok"

\* C31: a failed NLP request never fails Process. Once the NLP error is
\* counted the call has no error, goes on to the quality stage and returns
\* nil, and its document, the one passed to AddDocument, has no entities
\* and no keywords.
C31_NlpFailureNotFatal ==
    "nlp-error" \in Range(trail) =>
        /\ ppc \in {"quality", "returned"}
        /\ perr = (IF ppc = "returned" THEN "ok" ELSE "none")
        /\ document.Entities = 0
        /\ document.Keywords = 0

\* A document about to be passed to AddDocument after its NLP request
\* failed.
C31_Witness ==
    /\ AtAddDocument
    /\ "nlp-error" \in Range(trail)
    /\ pageData.VisibleText # <<>>

\* C32: the quality score of every document passed to AddDocument is the
\* additive score of that document's fields, capped at 100, less twice its
\* spam score, and not below 0; also for a document whose NLP request
\* failed and for one whose visible text is empty.
C32_QualityScoreFromFields ==
    AtAddDocument =>
        document.QualityScore =
            SpamPenalty(calculateQualityScore(document), document.SpamScore)

\* C33: every document passed to AddDocument carries what the clean stage
\* produced: its visible text is the whitespace-collapsed text of the page
\* and its URL is a normalized form of the page's URL; the stages after
\* clean leave both alone.
AfterClean == {"dedup", "store", "language", "spam", "enrich", "quality"}

C33_CleanValuesKept ==
    /\ [][(ppc \in AfterClean) =>
            /\ document'.URL = document.URL
            /\ document'.VisibleText = document.VisibleText]_vars
    /\ [](AtAddDocument =>
            /\ document.VisibleText = basicHTMLCleanup(pageData.VisibleText)
            /\ \E parseOk, keepRest \in BOOLEAN :
                 LET n == normalizeURL(pageData.URL, parseOk, keepRest)
                 IN  ~n.err /\ document.URL = n.url)

\* C34: the dedup signature is computed over the cleaned text, so a page
\* whose visible text equals, after whitespace collapsing, the text of a
\* page whose signature is stored is rejected as duplicate: with Redis
\* answering, no page gets past the dedup stage while the signature of a
\* text with the same cleaned form is in the store.
C34_SameCleanTextRejected ==
    (ppc = "store" /\ "redis-error" \notin Range(trail)) =>
        \A s \in sigs :
            basicHTMLCleanup(s[2]) # basicHTMLCleanup(pageData.VisibleText)

\* The number of times the event e occurs in the trail of the call.
Moved(e) == Cardinality({i \in 1..Len(trail) : trail[i] = e})

\* C38: when the worker has finished with a page, exactly the counter that
\* matches the outcome has moved, by one: pages-processed when Process
\* returned nil, non-English-skipped and high-spam-skipped when it failed
\* for that reason, and duplicates-detected, which the worker itself
\* increments, when it failed as duplicate. No other of the four moves, and
\* during the call the duplicates counter does not move at all.
C38_MatchingCounterOnce ==
    /\ [][(ppc = "returned" /\ ppc' = "idle") =>
            /\ Moved("processed") = (IF perr = "ok" THEN 1 ELSE 0)
            /\ Moved("non-english-skipped") =
                   (IF perr = "not-english" THEN 1 ELSE 0)
            /\ Moved("high-spam-skipped") =
                   (IF perr = "high-spam" THEN 1 ELSE 0)
            /\ duplicatesDetected' - duplicatesDetected =
                   (IF perr = "duplicate" THEN 1 ELSE 0)]_vars
    /\ [][(ppc # "returned") =>
            duplicatesDetected' = duplicatesDetected]_vars

\* Two pages were handled: one was dropped as duplicate and counted once.
C38_Witness ==
    /\ ppc = "idle"
    /\ pcalls = 2
    /\ duplicatesDetected = 1
====
